---- MODULE Spec2Model ----
(***************************************************************************)
(* Model of the semantic cache service: the circuit breaker                *)
(* (app/services/circuit_breaker.py), the Redis cache service              *)
(* (app/services/cache.py), the LLM service (app/services/llm.py) and the  *)
(* orchestrator (app/services/semantic_cache.py).                          *)
(*                                                                         *)
(* Time is the integer number of seconds read by time.time().  Threads     *)
(* interleave at lock acquisitions and at I/O round trips; code between    *)
(* two such points is local to the thread and is folded into one step.     *)
(***************************************************************************)
EXTENDS Integers, Sequences, FiniteSets, TLC

\* ---- bounds of the model ----
MaxTime == 30
MaxFailureCount == 4

\* Python's None for an unset time (CircuitBreaker._last_failure_time)
None == -1

Threads == {"t1", "t2"}
Breakers == {"redis", "llm"}

VARIABLES
    cb,     \* cb[b]: the fields of the module-level breaker b
    now,    \* time.time()
    th,     \* th[t]: position and locals of thread t
    redis_client, \* CacheService.redis_client: "None" or "connected"
    store,  \* the Redis keyspace: store[q] is the hash at key cache:md5(q)
    last,   \* history: the last call made on a breaker and the state it found
    grants, \* history: grants[b] = True returns of is_available on b since b
            \* last entered HALF_OPEN (0 outside HALF_OPEN)
    rtrips, \* history: store operations issued while redis_circuit is
            \* HALF_OPEN, since it entered HALF_OPEN (0 outside HALF_OPEN)
    metrics, \* the fields of the module-level Metrics object, or Projected
            \* in the specifications that do not follow the registry
    server  \* the Redis server: eviction policy and search index, with the
            \* history of the last connect

vars == <<cb, now, th, redis_client, store, last, grants, rtrips, metrics, server>>

\* ---- app/services/circuit_breaker.py ----

\* dataclass CircuitBreaker + __post_init__
CircuitBreaker(name, failure_threshold, recovery_timeout) ==
    [name |-> name,
     failure_threshold |-> failure_threshold,
     recovery_timeout |-> recovery_timeout,
     half_open_max_calls |-> 1,
     state |-> "closed",
     failure_count |-> 0,
     last_failure_time |-> None,
     half_open_calls |-> 0]

redis_circuit == CircuitBreaker("redis", 3, 10)
llm_circuit == CircuitBreaker("llm", 3, 30)

\* recovery attempted only strictly after the timeout
should_attempt_recovery_late(br, t) ==
    IF br.last_failure_time = None
    THEN TRUE
    ELSE t - br.last_failure_time > br.recovery_timeout

\* recovery attempted without waiting for the timeout
should_attempt_recovery_early(br, t) ==
    IF br.last_failure_time = None
    THEN TRUE
    ELSE t - br.last_failure_time >= 0

should_attempt_recovery(br, t) ==
    IF br.last_failure_time = None
    THEN TRUE
    ELSE t - br.last_failure_time >= br.recovery_timeout

\* the `state` property: the breaker after the query; the value returned is
\* the state field of the result
state(br, t) ==
    IF br.state = "open" /\ should_attempt_recovery(br, t)
    THEN [br EXCEPT !.state = "half_open", !.half_open_calls = 0]
    ELSE br

\* a success that closes a HALF_OPEN breaker and leaves the count as it is
record_success_keep_count(br) ==
    [br EXCEPT !.state = IF @ = "half_open" THEN "closed" ELSE @]

\* a success that resets the count but leaves a HALF_OPEN breaker as it is
record_success_no_close(br) == [br EXCEPT !.failure_count = 0]

record_success(br) ==
    [br EXCEPT !.state = IF @ = "half_open" THEN "closed" ELSE @,
               !.failure_count = 0]

\* a failure that opens the breaker only strictly above the threshold
record_failure_above(br, t) ==
    LET b1 == [br EXCEPT !.failure_count = @ + 1, !.last_failure_time = t]
    IN  IF b1.state = "half_open"
        THEN [b1 EXCEPT !.state = "open"]
        ELSE IF b1.failure_count > b1.failure_threshold
             THEN [b1 EXCEPT !.state = "open"]
             ELSE b1

record_failure(br, t) ==
    LET b1 == [br EXCEPT !.failure_count = @ + 1, !.last_failure_time = t]
    IN  IF b1.state = "half_open"
        THEN [b1 EXCEPT !.state = "open"]
        ELSE IF b1.failure_count >= b1.failure_threshold
             THEN [b1 EXCEPT !.state = "open"]
             ELSE b1

\* second critical section of is_available (state read was HALF_OPEN)
permit_free_one_more(br) == br.half_open_calls <= br.half_open_max_calls

permit_free(br) == br.half_open_calls < br.half_open_max_calls

take_permit(br) == [br EXCEPT !.half_open_calls = @ + 1]

\* ---- app/services/classifier.py, app/services/embedding.py ----

\* the query texts submitted in the model
Queries ==
    {"What is the capital of France?", "What's France's capital?",
     "Which city is the capital of France?", "Tell me about Paris",
     "What's the weather in NYC today?"}

\* the query texts that have a key in the model of the store
Keys ==
    Queries \cup {"a", "what is the capital of france?",
                  " What is the capital of France? "}

\* A text is a sequence of items.  An item is a word, spelled in lower
\* case or with upper-case letters, or Space, one more whitespace character;
\* two neighbouring words are separated by a single blank.  Punctuation is
\* left out: it matches no pattern and is no word character.
Space == [w |-> " ", up |-> FALSE]

Word(w) == [w |-> w, up |-> FALSE]

Upper(w) == [w |-> w, up |-> TRUE]

\* the texts of the queries submitted in the model
Text(q) ==
    CASE q = "What is the capital of France?" ->
           <<Upper("what"), Word("is"), Word("the"), Word("capital"),
             Word("of"), Upper("france")>>
      [] q = "What's France's capital?" ->
           <<Upper("what's"), Upper("france's"), Word("capital")>>
      [] q = "Which city is the capital of France?" ->
           <<Upper("which"), Word("city"), Word("is"), Word("the"),
             Word("capital"), Word("of"), Upper("france")>>
      [] q = "Tell me about Paris" ->
           <<Upper("tell"), Word("me"), Word("about"), Upper("paris")>>
      [] q = "What's the weather in NYC today?" ->
           <<Upper("what's"), Word("the"), Word("weather"), Word("in"),
             Upper("nyc"), Word("today")>>
      [] q = "a" -> <<Word("a")>>
      [] q = "what is the capital of france?" ->
           <<Word("what"), Word("is"), Word("the"), Word("capital"),
             Word("of"), Word("france")>>
      [] q = " What is the capital of France? " ->
           <<Space, Upper("what"), Word("is"), Word("the"), Word("capital"),
             Word("of"), Upper("france"), Space>>
      [] q = "" -> <<>>
      [] q = "   " -> <<Space, Space, Space>>

\* str.lower
lower(text) == [i \in 1..Len(text) |-> [text[i] EXCEPT !.up = FALSE]]

\* a regular expression of the classifier: the set of its alternatives, each
\* a phrase of lower-case words separated by single blanks
\* re.search(pattern, text): some alternative occurs in the text as it is
\* spelled
re_search(pattern, text) ==
    \E alt \in pattern : \E i \in 0..(Len(text) - Len(alt)) :
        \A j \in 1..Len(alt) : text[i + j] = Word(alt[j])

TIME_SENSITIVE_PATTERNS ==
    << {<<"today">>}, {<<"now">>}, {<<"current">>, <<"currently">>},
       {<<"latest">>}, {<<"recent">>, <<"recently">>}, {<<"yesterday">>},
       {<<"tomorrow">>}, {<<"this", "week">>}, {<<"tonight">>},
       {<<"weather">>}, {<<"forecast">>}, {<<"temperature">>}, {<<"news">>},
       {<<"headline">>, <<"headlines">>}, {<<"breaking">>}, {<<"stock">>},
       {<<"price">>}, {<<"market">>}, {<<"trading">>}, {<<"bitcoin">>},
       {<<"score">>}, {<<"game">>}, {<<"match">>}, {<<"won">>}, {<<"lost">>} >>

EVERGREEN_PATTERNS ==
    << {<<"who", "was", "the", "first">>}, {<<"what", "year", "did">>},
       {<<"definition", "of">>}, {<<"what", "is", "a">>},
       {<<"how", "do", "you">>}, {<<"history", "of">>} >>

TOPIC_PATTERNS ==
    << [topic |-> "weather", patterns |->
          << {<<"weather">>}, {<<"forecast">>}, {<<"temperature">>},
             {<<"rain">>, <<"raining">>, <<"rainy">>}, {<<"sunny">>},
             {<<"cloudy">>}, {<<"snow">>, <<"snowing">>, <<"snowy">>},
             {<<"humidity">>}, {<<"climate">>} >>],
       [topic |-> "finance", patterns |->
          << {<<"stock">>}, {<<"price">>}, {<<"market">>}, {<<"trading">>},
             {<<"bitcoin">>}, {<<"crypto">>},
             {<<"invest">>, <<"investment">>, <<"investing">>},
             {<<"dividend">>}, {<<"share">>, <<"shares">>}, {<<"portfolio">>},
             {<<"index">>}, {<<"nasdaq">>}, {<<"s&p">>} >>],
       [topic |-> "sports", patterns |->
          << {<<"score">>}, {<<"game">>}, {<<"match">>}, {<<"team">>},
             {<<"player">>}, {<<"won">>}, {<<"lost">>},
             {<<"champion">>, <<"championship">>}, {<<"league">>},
             {<<"tournament">>}, {<<"football">>}, {<<"basketball">>},
             {<<"soccer">>}, {<<"tennis">>}, {<<"olympic">>} >>],
       [topic |-> "technology", patterns |->
          << {<<"programming">>}, {<<"software">>}, {<<"code">>},
             {<<"computer">>}, {<<"algorithm">>}, {<<"database">>},
             {<<"api">>}, {<<"python">>}, {<<"javascript">>}, {<<"java">>},
             {<<"rust">>}, {<<"machine", "learning">>}, {<<"ai">>},
             {<<"artificial", "intelligence">>}, {<<"neural">>},
             {<<"deep", "learning">>}, {<<"framework">>}, {<<"library">>} >>],
       [topic |-> "science", patterns |->
          << {<<"physics">>}, {<<"chemistry">>}, {<<"biology">>},
             {<<"math">>, <<"mathematics">>},
             {<<"science">>, <<"scientific">>, <<"scientist">>}, {<<"atom">>},
             {<<"molecule">>}, {<<"cell">>}, {<<"dna">>}, {<<"evolution">>},
             {<<"theory">>}, {<<"experiment">>}, {<<"quantum">>},
             {<<"relativity">>}, {<<"gravity">>} >>],
       [topic |-> "history", patterns |->
          << {<<"history">>}, {<<"historical">>}, {<<"war">>}, {<<"century">>},
             {<<"ancient">>}, {<<"empire">>}, {<<"king">>}, {<<"queen">>},
             {<<"president">>}, {<<"revolution">>}, {<<"civilization">>},
             {<<"colonial">>}, {<<"medieval">>} >>],
       [topic |-> "geography", patterns |->
          << {<<"capital">>}, {<<"country">>}, {<<"city">>}, {<<"continent">>},
             {<<"ocean">>}, {<<"mountain">>}, {<<"river">>}, {<<"island">>},
             {<<"population">>}, {<<"geography">>, <<"geographical">>},
             {<<"location">>}, {<<"region">>} >>],
       [topic |-> "news", patterns |->
          << {<<"news">>}, {<<"headline">>, <<"headlines">>}, {<<"breaking">>},
             {<<"report">>, <<"reported">>, <<"reporting">>},
             {<<"announce">>, <<"announced">>, <<"announcement">>},
             {<<"election">>}, {<<"politics">>}, {<<"government">>} >> ] >>

\* the patterns of a list that re.search finds in the text
Matches(patterns, text) ==
    {i \in 1..Len(patterns) : re_search(patterns[i], text)}

TimeSensitiveMatches(q) == Matches(TIME_SENSITIVE_PATTERNS, q)

EvergreenMatches(q) == Matches(EVERGREEN_PATTERNS, q)

\* the patterns are searched in the text as it was submitted
classify_no_lower(query) ==
    LET q == query IN
    IF EvergreenMatches(q) # {} THEN "evergreen"
    ELSE IF Cardinality(TimeSensitiveMatches(q)) >= 1 THEN "time_sensitive"
    ELSE "evergreen"

classify(query) ==
    LET q == lower(query) IN
    IF EvergreenMatches(q) # {} THEN "evergreen"
    ELSE IF Cardinality(TimeSensitiveMatches(q)) >= 1 THEN "time_sensitive"
    ELSE "evergreen"

\* topic_scores of classify_topic: the score of the i-th topic
topic_score(i, q) == Cardinality(Matches(TOPIC_PATTERNS[i].patterns, q))

\* max(topic_scores, key=topic_scores.get) returns the first key, in the
\* order of insertion, that has the highest score
classify_topic(query) ==
    LET q == lower(query)
        scored == {i \in 1..Len(TOPIC_PATTERNS) : topic_score(i, q) > 0}
        best == {i \in scored : \A k \in scored : topic_score(k, q) <= topic_score(i, q)}
    IN  IF scored # {}
        THEN TOPIC_PATTERNS[CHOOSE i \in best : \A k \in best : i <= k].topic
        ELSE "general"

\* CACHING_PARAMS; the threshold is a cosine distance in units of 0.00001
get_caching_params(query_type) ==
    IF query_type = "time_sensitive"
    THEN [threshold |-> 15000, ttl |-> 300]
    ELSE [threshold |-> 30000, ttl |-> 604800]

\* embedding_service.embed: the model is opaque; a text is mapped to a point
\* and the cosine distance of two texts, in units of 0.00001, is the distance of
\* their points
embed(q) ==
    CASE q = "What is the capital of France?" -> 0
      [] q = "What's France's capital?" -> 20004
      [] q = "Which city is the capital of France?" -> 30000
      [] q = "Tell me about Paris" -> 30001
      [] OTHER -> 100000

Distance(e1, e2) == IF e1 >= e2 THEN e1 - e2 ELSE e2 - e1

\* ---- the Redis keyspace ----

\* KEY_PREFIX + hashlib.md5(query.encode()).hexdigest(): the digest is
\* taken of the text as it is spelled, and two queries have the same key
\* when their texts are the same; the keyspace is indexed by the query
\* texts of the model, each standing for the key of its text
key(query) == CHOOSE k \in Keys : Text(k) = Text(query)

NoEntry == [kind |-> "absent"]

\* the answers the backend may give
Contents == {"a1", "a2"}

\* the topic arguments with which search is called
SearchTopics == {"-", "general", "geography"}

\* the topic tags of the entries written by direct calls of store
EntryTopics == {"general", "geography", "history"}

\* the key of q holds a hash that Redis has not expired
Live(q) ==
    /\ store[q] # NoEntry
    /\ store[q].expires_at # None => now < store[q].expires_at

\* FT.SEARCH with KNN 1: the documents returned (none, or one nearest
\* entry among those whose topic tag passes the filter)
Knn(vec, topic) ==
    LET cand == {k \in Keys :
                   /\ Live(k)
                   /\ (topic # "-" => store[k].topic = topic)}
        d(k) == Distance(vec, store[k].embedding)
    IN  {k \in cand : \A k2 \in cand : d(k) <= d(k2)}

\* ---- threads ----

NoVal == [kind |-> "none"]

\* a thread outside any call.  ret/val: outcome of its last call; the other
\* fields are the arguments and locals of the call in progress; rts,
\* open_all, gen, api and had are history (store round trips of the call;
\* the store breaker was OPEN within its recovery timeout from the start of
\* the call until now; calls of llm_service.generate made by the call;
\* requests sent to the backend by the call; the connected store held a
\* live entry for the query when the call began)
\* ---- app/services/metrics.py ----

\* the calls of process_query that the model follows
MaxQueries == 4

\* Metrics(): the counters, the latency sums in milliseconds and the
\* topic histogram, a dictionary that starts empty
Metrics0 ==
    [total_queries |-> 0, cache_hits |-> 0, cache_misses |-> 0, llm_calls |-> 0,
     errors |-> 0, total_latency_ms |-> 0, cache_latency_ms |-> 0,
     llm_latency_ms |-> 0, time_sensitive_queries |-> 0, evergreen_queries |-> 0,
     topic_counts |-> <<>>]

\* process_query writes the registry and never reads it: the specifications
\* whose properties do not mention the registry start with it projected
\* away, and it stays so; with it goes start_time, which serves it alone
Projected == [projected |-> TRUE]

record_cache_hit(m, latency_ms) ==
    [m EXCEPT !.total_queries = @ + 1, !.cache_hits = @ + 1,
              !.total_latency_ms = @ + latency_ms,
              !.cache_latency_ms = @ + latency_ms]

\* a miss is counted without the call of the backend
record_cache_miss_no_llm_call(m, latency_ms) ==
    [m EXCEPT !.total_queries = @ + 1, !.cache_misses = @ + 1,
              !.total_latency_ms = @ + latency_ms,
              !.llm_latency_ms = @ + latency_ms]

record_cache_miss(m, latency_ms) ==
    [m EXCEPT !.total_queries = @ + 1, !.cache_misses = @ + 1,
              !.llm_calls = @ + 1,
              !.total_latency_ms = @ + latency_ms,
              !.llm_latency_ms = @ + latency_ms]

record_query_type(m, query_type) ==
    IF query_type = "time_sensitive"
    THEN [m EXCEPT !.time_sensitive_queries = @ + 1]
    ELSE [m EXCEPT !.evergreen_queries = @ + 1]

\* _topic_counts is a defaultdict(int): a missing key counts from 0
record_topic(m, topic) ==
    [m EXCEPT !.topic_counts =
        IF topic \in DOMAIN @ THEN [@ EXCEPT ![topic] = @ + 1]
        ELSE @ @@ (topic :> 1)]

record_error(m) == [m EXCEPT !.errors = @ + 1]

reset(m) ==
    [m EXCEPT !.total_queries = 0, !.cache_hits = 0, !.cache_misses = 0,
              !.llm_calls = 0, !.errors = 0, !.total_latency_ms = 0,
              !.cache_latency_ms = 0, !.llm_latency_ms = 0,
              !.time_sensitive_queries = 0, !.evergreen_queries = 0,
              !.topic_counts = <<>>]

\* what a division of get_stats leaves when its divisor is 0
ZeroDivisionError == -1

\* round(num / den, 2) in hundredths: the nearest hundredth of the
\* quotient, the even one when the quotient lies halfway
round2(num, den) ==
    LET n == (100 * num) \div den
        rest == (100 * num) % den
    IN  IF 2 * rest > den \/ (2 * rest = den /\ n % 2 = 1) THEN n + 1 ELSE n

\* (num / den) if guard else 0.0, rounded to two decimals
quotient(num, den, guard) ==
    IF ~guard THEN 0
    ELSE IF den = 0 THEN ZeroDivisionError
    ELSE round2(num, den)

\* the average latency of the hits is guarded by the count of all queries
get_stats_guard_by_total(m) ==
    [total_queries |-> m.total_queries,
     cache_hits |-> m.cache_hits,
     cache_misses |-> m.cache_misses,
     hit_rate_percent |-> quotient(m.cache_hits * 100, m.total_queries,
                                   m.total_queries > 0),
     llm_calls |-> m.llm_calls,
     errors |-> m.errors,
     latency |->
        [avg_total_ms |-> quotient(m.total_latency_ms, m.total_queries,
                                   m.total_queries > 0),
         avg_cache_ms |-> quotient(m.cache_latency_ms, m.cache_hits,
                                   m.total_queries > 0),
         avg_llm_ms |-> quotient(m.llm_latency_ms, m.llm_calls, m.llm_calls > 0)],
     query_types |-> [time_sensitive |-> m.time_sensitive_queries,
                      evergreen |-> m.evergreen_queries],
     topics |-> m.topic_counts]

\* get_stats: counters as they are, the rate in hundredths of a percent and
\* the averages in hundredths of a millisecond
get_stats(m) ==
    [total_queries |-> m.total_queries,
     cache_hits |-> m.cache_hits,
     cache_misses |-> m.cache_misses,
     hit_rate_percent |-> quotient(m.cache_hits * 100, m.total_queries,
                                   m.total_queries > 0),
     llm_calls |-> m.llm_calls,
     errors |-> m.errors,
     latency |->
        [avg_total_ms |-> quotient(m.total_latency_ms, m.total_queries,
                                   m.total_queries > 0),
         avg_cache_ms |-> quotient(m.cache_latency_ms, m.cache_hits,
                                   m.cache_hits > 0),
         avg_llm_ms |-> quotient(m.llm_latency_ms, m.llm_calls, m.llm_calls > 0)],
     query_types |-> [time_sensitive |-> m.time_sensitive_queries,
                      evergreen |-> m.evergreen_queries],
     topics |-> m.topic_counts]

\* the end of process_query as the metrics see it: record_cache_hit when it
\* returns a stored answer, record_cache_miss when it returns a generated
\* one, with the time since start_time in milliseconds; nothing is recorded
\* when it ends with an exception
Recorded(t) ==
    metrics' =
        IF /\ metrics # Projected
           /\ th[t].op = "process_query" /\ th'[t].pc = "idle" /\ th'[t].ret = "returned"
        THEN LET latency_ms == (now - th[t].start_time) * 1000 IN
             IF th'[t].val.source = "cache"
             THEN record_cache_hit(metrics, latency_ms)
             ELSE record_cache_miss(metrics, latency_ms)
        ELSE metrics

IdleThread ==
    [pc |-> "idle", ret |-> "-", val |-> NoVal,
     op |-> "-", q |-> "-", force |-> FALSE, topic |-> "-",
     response |-> "-", created_at |-> None, rts |-> 0, open_all |-> FALSE,
     gen |-> 0, api |-> 0, had |-> FALSE, start_time |-> None,
     via |-> "-", cls |-> 0]

NoCall == [b |-> "-", op |-> "-", pre |-> "-", ret |-> "-"]

\* history: is_available granted (or not) in this step, on breaker b
CountGrants(b, granted) ==
    grants' = [grants EXCEPT ![b] =
        IF cb'[b].state = "half_open"
        THEN (IF cb[b].state = "half_open" THEN @ ELSE 0)
             + (IF granted THEN 1 ELSE 0)
        ELSE 0]

\* ---- app/services/cache.py: connect ----

\* a Redis server that no instance has connected to: no eviction policy
\* set, no search index; creates counts the FT.CREATE commands that
\* succeeded; config, info, warned and result tell of the last connect
FreshServer ==
    [policy |-> "noeviction", index |-> FALSE, creates |-> 0,
     config |-> "-", info |-> "-", warned |-> FALSE, result |-> "-"]

\* _configure_eviction_policy, for the outcome of CONFIG SET: a
\* ResponseError is logged as a warning, any other error leaves connect
configure_eviction_policy(sv, outcome) ==
    IF outcome = "ok" THEN [sv EXCEPT !.policy = "volatile-ttl", !.config = outcome]
    ELSE IF outcome = "ResponseError" THEN [sv EXCEPT !.warned = TRUE, !.config = outcome]
    ELSE [sv EXCEPT !.config = outcome, !.result = outcome]

\* the index is dropped and created again when it exists
ensure_index_recreates(sv, outcome) ==
    IF outcome = "ConnectionError"
    THEN [sv EXCEPT !.info = outcome, !.result = outcome]
    ELSE [sv EXCEPT !.index = TRUE, !.creates = @ + 1,
                    !.info = IF sv.index /\ outcome = "ok" THEN "ok" ELSE "ResponseError"]

\* _ensure_index, for the outcome of the FT.INFO round trip: "ok" when the
\* server answers for the index as it is (an unknown index is answered
\* with ResponseError), "ResponseError" when it answers with an error
\* although the index exists.  FT.CREATE follows every ResponseError and
\* is refused with ResponseError when the index exists.
ensure_index(sv, outcome) ==
    IF outcome = "ConnectionError"
    THEN [sv EXCEPT !.info = outcome, !.result = outcome]
    ELSE IF sv.index /\ outcome = "ok" THEN [sv EXCEPT !.info = "ok"]
    ELSE IF sv.index
         THEN [sv EXCEPT !.info = "ResponseError", !.result = "ResponseError"]
         ELSE [sv EXCEPT !.info = "ResponseError", !.index = TRUE, !.creates = @ + 1]

\* connect: the policy first, then the index, unless the policy step raised
connect(sv, config_outcome, info_outcome) ==
    LET begun == [sv EXCEPT !.config = "-", !.info = "-", !.warned = FALSE,
                            !.result = "ok"]
        configured == configure_eviction_policy(begun, config_outcome)
    IN  IF configured.result # "ok" THEN configured
        ELSE ensure_index(configured, info_outcome)

\* history bookkeeping for a call `op` on breaker b that returned `ret`
Observe(b, op, ret) ==
    /\ last' = [b |-> b, op |-> op, pre |-> cb[b].state, ret |-> ret]
    /\ CountGrants(b, op = "is_available" /\ ret = "True")

Init ==
    /\ cb = [b \in Breakers |-> IF b = "redis" THEN redis_circuit ELSE llm_circuit]
    /\ now = 0
    /\ th = [t \in Threads |-> IdleThread]
    /\ redis_client = "None"
    /\ store = [q \in Keys |-> NoEntry]
    /\ last = NoCall
    /\ grants = [b \in Breakers |-> 0]
    /\ rtrips = 0
    /\ metrics = Projected
    /\ server = FreshServer

\* the store breaker is OPEN and, at time t, within its recovery timeout
StoreOpenUnexpired(t) ==
    /\ cb["redis"].state = "open"
    /\ t - cb["redis"].last_failure_time < cb["redis"].recovery_timeout

Tick(d) ==
    /\ now + d <= MaxTime
    /\ now' = now + d
    /\ th' = [t \in Threads |->
                [th[t] EXCEPT !.open_all = @ /\ StoreOpenUnexpired(now')]]
    /\ UNCHANGED <<cb, redis_client, server, store, last, grants, rtrips, metrics>>

\* ---- app/services/cache.py, llm.py, semantic_cache.py ----

\* redis.RedisError subclasses a round trip may raise
StoreErrors == {"ResponseError", "ConnectionError", "TimeoutError"}

\* the exceptions `except redis.RedisError` of store catches
\* (only those of `except redis.ResponseError`)
StoreCaught_response_only == {"ResponseError"}

StoreCaught == StoreErrors

\* the steps by which time advances between two steps of the service
TickSteps == {10, 30}

\* the call of thread record r ends with outcome `status` and value v
Ret(r, status, v) ==
    [r EXCEPT !.pc = "idle", !.ret = status, !.val = v,
              !.response = "-", !.created_at = None]

Threshold(r) == get_caching_params(classify(Text(r.q))).threshold

\* history: n store operations issued in this step
CountTrips(n) ==
    rtrips' = IF cb'["redis"].state = "half_open"
              THEN (IF cb["redis"].state = "half_open" THEN rtrips ELSE 0) + n
              ELSE 0

\* force_refresh is ignored: the cache is searched first
BeginProcessQuery_no_force(t, q, force) ==
    /\ th[t].pc = "idle"
    /\ th' = [th EXCEPT ![t] =
                [IdleThread EXCEPT !.pc = "search",
                                   !.op = "process_query", !.q = q,
                                   !.force = force,
                                   !.open_all = StoreOpenUnexpired(now),
                                   !.had = redis_client = "connected" /\ Live(q),
                                   !.cls = 1,
                                   !.start_time =
                                       IF metrics = Projected THEN None ELSE now]]
    /\ metrics # Projected =>
          metrics.time_sensitive_queries + metrics.evergreen_queries < MaxQueries
    /\ metrics' = IF metrics = Projected THEN metrics
                  ELSE record_query_type(metrics, classify(Text(q)))
    /\ UNCHANGED <<cb, now, redis_client, server, store, last, grants, rtrips>>

\* process_query up to the choice between search and generate (lines 42-59)
BeginProcessQuery(t, q, force) ==
    /\ th[t].pc = "idle"
    /\ th' = [th EXCEPT ![t] =
                [IdleThread EXCEPT !.pc = IF force THEN "generate" ELSE "search",
                                   !.op = "process_query", !.q = q,
                                   !.force = force,
                                   !.open_all = StoreOpenUnexpired(now),
                                   !.had = redis_client = "connected" /\ Live(q),
                                   !.cls = 1,
                                   !.start_time =
                                       IF metrics = Projected THEN None ELSE now]]
    /\ metrics # Projected =>
          metrics.time_sensitive_queries + metrics.evergreen_queries < MaxQueries
    /\ metrics' = IF metrics = Projected THEN metrics
                  ELSE record_query_type(metrics, classify(Text(q)))
    /\ UNCHANGED <<cb, now, redis_client, server, store, last, grants, rtrips>>

\* CacheService.search called directly with a topic
\* the failure of embed is swallowed and the request goes on to the store
\* and the backend
EmbedRaises_goes_on(t, q, force) ==
    /\ th[t].pc = "idle"
    /\ th' = [th EXCEPT ![t] =
                [IdleThread EXCEPT !.pc = IF force THEN "generate" ELSE "search",
                                   !.op = "process_query", !.q = q,
                                   !.force = force, !.cls = 1,
                                   !.ret = "EmbedError",
                                   !.start_time =
                                       IF metrics = Projected THEN None ELSE now]]
    /\ metrics # Projected =>
          metrics.time_sensitive_queries + metrics.evergreen_queries < MaxQueries
    /\ metrics' = IF metrics = Projected THEN metrics
                  ELSE record_query_type(metrics, classify(Text(q)))
    /\ UNCHANGED <<cb, now, redis_client, server, store, last, grants, rtrips>>

\* process_query when embedding_service.embed raises: the query has been
\* classified and its type recorded; the exception leaves process_query
EmbedRaises(t, q, force) ==
    /\ th[t].pc = "idle"
    /\ th' = [th EXCEPT ![t] =
                [IdleThread EXCEPT !.op = "process_query", !.q = q,
                                   !.force = force, !.cls = 1,
                                   !.ret = "EmbedError",
                                   !.start_time =
                                       IF metrics = Projected THEN None ELSE now]]
    /\ metrics # Projected =>
          metrics.time_sensitive_queries + metrics.evergreen_queries < MaxQueries
    /\ metrics' = IF metrics = Projected THEN metrics
                  ELSE record_query_type(metrics, classify(Text(q)))
    /\ UNCHANGED <<cb, now, redis_client, server, store, last, grants, rtrips>>

BeginSearch(t, q, topic) ==
    /\ th[t].pc = "idle"
    /\ th' = [th EXCEPT ![t] =
                [IdleThread EXCEPT !.pc = "search", !.op = "search", !.q = q,
                                   !.topic = topic]]
    /\ UNCHANGED <<cb, now, redis_client, server, store, last, grants, rtrips, metrics>>

\* what process_query does when store returns (lines 81-87)
StoreReturns(r) ==
    Ret(r, "returned",
        [kind |-> "result", response |-> r.response, source |-> "llm"])

\* process_query treats every search result as a miss
\* round(x, 4) of a number given in units of 0.00001: the nearest multiple
\* of 0.0001, the even one when x lies halfway
round4(x) ==
    LET n == x \div 10
        rest == x % 10
    IN  10 * (IF rest > 5 \/ (rest = 5 /\ n % 2 = 1) THEN n + 1 ELSE n)

\* the confidence is reported as it is computed, without rounding
confidence_unrounded(distance) == 100000 - distance

\* confidence = round(1.0 - cached["distance"], 4)
confidence(distance) == round4(100000 - distance)

SearchReturns_always_miss(r, hit) ==
    IF r.op = "search"
    THEN Ret(r, IF hit = NoVal THEN "None" ELSE "hit", hit)
    ELSE [r EXCEPT !.pc = "generate"]

\* what the caller of search does with its result (NoVal is None)
SearchReturns(r, hit) ==
    IF r.op = "search"
    THEN Ret(r, IF hit = NoVal THEN "None" ELSE "hit", hit)
    ELSE IF hit # NoVal
         THEN Ret(r, "returned",
                  [kind |-> "result", response |-> hit.response,
                   source |-> "cache", confidence |-> confidence(hit.distance)])
         ELSE [r EXCEPT !.pc = "generate"]

\* the topic argument is ignored
FirstQuery_always_global(r) == "knn_global"

FirstQuery(r) ==
    IF r.topic # "-" /\ r.topic # "general" THEN "knn_topic" ELSE "knn_global"

\* the breaker consulted by search and store (redis_circuit) and by
\* generate (llm_circuit)
BreakerOf(pc) == IF pc \in {"generate", "gen_permit"} THEN "llm" ELSE "redis"

\* the caller of is_available goes on (True) ...
Admitted(r) ==
    IF r.pc \in {"search", "search_permit"} THEN [r EXCEPT !.pc = FirstQuery(r)]
    ELSE IF r.pc \in {"store", "store_permit"}
         THEN [r EXCEPT !.pc = "hset", !.created_at = now]
         ELSE [r EXCEPT !.pc = "gen_await", !.api = @ + 1]

\* generate sends the request although admission was denied
Denied_calls_backend(r) ==
    IF r.pc \in {"search", "search_permit"} THEN SearchReturns(r, NoVal)
    ELSE IF r.pc \in {"store", "store_permit"} THEN StoreReturns(r)
    ELSE [r EXCEPT !.pc = "gen_await", !.api = @ + 1]

\* ... or gives up (False, or redis_client is None)
Denied(r) ==
    IF r.pc \in {"search", "search_permit"} THEN SearchReturns(r, NoVal)
    ELSE IF r.pc \in {"store", "store_permit"} THEN StoreReturns(r)
    ELSE Ret(r, "LLMServiceUnavailableError", NoVal)

\* entry of search, store and generate: the client check of the cache
\* service, then is_available up to its state read
Admission(t) ==
    LET r == IF th[t].pc = "generate" THEN [th[t] EXCEPT !.gen = @ + 1] ELSE th[t]
        b == BreakerOf(r.pc)
    IN
    /\ r.pc \in {"search", "store", "generate"}
    /\ IF b = "redis" /\ redis_client = "None"
       THEN /\ th' = [th EXCEPT ![t] = Denied(r)]
            /\ UNCHANGED <<cb, grants>>
       ELSE /\ cb' = [cb EXCEPT ![b] = state(@, now)]
            /\ th' = [th EXCEPT ![t] =
                  IF cb'[b].state = "closed" THEN Admitted(r)
                  ELSE IF cb'[b].state = "half_open"
                       THEN [r EXCEPT !.pc =
                               IF r.pc = "search" THEN "search_permit"
                               ELSE IF r.pc = "store" THEN "store_permit"
                               ELSE "gen_permit"]
                       ELSE Denied(r)]
            /\ CountGrants(b, cb'[b].state = "closed")
    /\ CountTrips(0)
    /\ UNCHANGED <<now, redis_client, server, store, last>>
    /\ Recorded(t)

\* a rejection by the HALF_OPEN breaker is recorded as a failure
Permit_records_failure(t) ==
    LET r == th[t]
        b == BreakerOf(r.pc)
    IN
    /\ r.pc \in {"search_permit", "store_permit", "gen_permit"}
    /\ IF permit_free(cb[b])
       THEN /\ cb' = [cb EXCEPT ![b] = take_permit(@)]
            /\ th' = [th EXCEPT ![t] = Admitted(r)]
            /\ CountGrants(b, TRUE)
       ELSE /\ cb' = [cb EXCEPT ![b] = record_failure(@, now)]
            /\ th' = [th EXCEPT ![t] = Denied(r)]
            /\ CountGrants(b, FALSE)
    /\ CountTrips(0)
    /\ UNCHANGED <<now, redis_client, server, store, last>>
    /\ Recorded(t)

\* is_available after a HALF_OPEN state read: the permit accounting
Permit(t) ==
    LET r == th[t]
        b == BreakerOf(r.pc)
    IN
    /\ r.pc \in {"search_permit", "store_permit", "gen_permit"}
    /\ IF permit_free(cb[b])
       THEN /\ cb' = [cb EXCEPT ![b] = take_permit(@)]
            /\ th' = [th EXCEPT ![t] = Admitted(r)]
            /\ CountGrants(b, TRUE)
       ELSE /\ cb' = cb
            /\ th' = [th EXCEPT ![t] = Denied(r)]
            /\ CountGrants(b, FALSE)
    /\ CountTrips(0)
    /\ UNCHANGED <<now, redis_client, server, store, last>>
    /\ Recorded(t)

\* a document at distance = threshold is not a hit
HitOf_strict(r, k) ==
    IF Distance(embed(r.q), store[k].embedding) < Threshold(r)
    THEN [kind |-> "hit", query |-> k, response |-> store[k].response,
          distance |-> Distance(embed(r.q), store[k].embedding),
          topic |-> store[k].topic]
    ELSE NoVal

\* the value _search_with_filter computes from the documents returned
HitOf(r, k) ==
    IF Distance(embed(r.q), store[k].embedding) <= Threshold(r)
    THEN [kind |-> "hit", query |-> k, response |-> store[k].response,
          distance |-> Distance(embed(r.q), store[k].embedding),
          topic |-> store[k].topic]
    ELSE NoVal

\* a miss of the topic pass ends the search
AfterFilter_no_fallback(r, hit) == SearchReturns([r EXCEPT !.rts = @ + 1], hit)

\* what search does with the value of _search_with_filter (lines 98-105)
AfterFilter(r, hit) ==
    IF r.pc = "knn_topic" /\ hit = NoVal
    THEN [r EXCEPT !.pc = "knn_global", !.rts = @ + 1]
    ELSE SearchReturns([r EXCEPT !.rts = @ + 1], hit)

\* _search_with_filter: one KNN round trip and its bookkeeping
SearchWithFilter(t, outcome) ==
    LET r == th[t]
        docs == Knn(embed(r.q), IF r.pc = "knn_topic" THEN r.topic ELSE "-")
    IN
    /\ r.pc \in {"knn_topic", "knn_global"}
    /\ \/ /\ outcome = "ok"
          /\ cb' = [cb EXCEPT !["redis"] = record_success(@)]
          /\ CountGrants("redis", FALSE)
          /\ IF docs = {}
             THEN th' = [th EXCEPT ![t] = AfterFilter(r, NoVal)]
             ELSE \E k \in docs : th' = [th EXCEPT ![t] = AfterFilter(r, HitOf(r, k))]
       \/ /\ outcome = "ResponseError"
          /\ cb["redis"].failure_count < MaxFailureCount
          /\ cb' = [cb EXCEPT !["redis"] = record_failure(@, now)]
          /\ CountGrants("redis", FALSE)
          /\ th' = [th EXCEPT ![t] = AfterFilter(r, NoVal)]
       \/ /\ outcome \in StoreErrors \ {"ResponseError"}
          /\ th' = [th EXCEPT ![t] = Ret([r EXCEPT !.rts = @ + 1], outcome, NoVal)]
          /\ UNCHANGED <<cb, grants>>
    /\ CountTrips(1)
    /\ UNCHANGED <<now, redis_client, server, store, last>>
    /\ Recorded(t)

\* a failed backend call is handed back to generate for another attempt
\* a failed backend call goes on to the store step
GenerateRaises_stores(r, outcome) == [r EXCEPT !.pc = "store"]

GenerateRaises_retry(r, outcome) == [r EXCEPT !.pc = "generate"]

\* generate, lines 66-73: the backend error is translated and raised;
\* process_query lets it through to its caller
GenerateRaises(r, outcome) ==
    Ret(r, IF outcome = "RateLimitError" THEN "LLMRateLimitError"
           ELSE "LLMServiceUnavailableError", NoVal)

\* generate, lines 58-73: the awaited backend call completes
\* response.choices[0].message.content is a text, the empty text or null;
\* generate returns `content if content else ""`
Generated(content) == IF content \in {"None", ""} THEN "" ELSE content

GenerateAwait(t, outcome, content) ==
    /\ th[t].pc = "gen_await"
    /\ \/ /\ outcome = "ok"
          /\ cb' = [cb EXCEPT !["llm"] = record_success(@)]
          /\ th' = [th EXCEPT ![t].pc = "store", ![t].response = Generated(content)]
       \/ /\ outcome \in {"RateLimitError", "APIError"}
          /\ cb["llm"].failure_count < MaxFailureCount
          /\ cb' = [cb EXCEPT !["llm"] = record_failure(@, now)]
          /\ th' = [th EXCEPT ![t] = GenerateRaises(@, outcome)]
    /\ CountGrants("llm", FALSE)
    /\ UNCHANGED <<now, redis_client, server, store, last, rtrips>>
    /\ Recorded(t)

\* the request task is cancelled while it awaits the backend
Cancel(t) ==
    /\ th[t].pc = "gen_await"
    /\ th' = [th EXCEPT ![t] = Ret(@, "CancelledError", NoVal)]
    /\ UNCHANGED <<cb, now, redis_client, server, store, last, grants, rtrips>>
    /\ Recorded(t)

\* the fields of an existing hash are kept (HSETNX)
Mapping_keep_fields(r) ==
    IF Live(r.q) THEN store[r.q]
    ELSE [kind |-> "entry", query |-> r.q, response |-> r.response,
          query_type |-> classify(Text(r.q)), topic |-> "general",
          created_at |-> r.created_at, embedding |-> embed(r.q),
          expires_at |-> None]

\* the hash written by HSET key mapping; HSET leaves the key's expiration
\* as it is (None on a new key)
Mapping(r) ==
    [kind |-> "entry", query |-> r.q, response |-> r.response,
     query_type |-> classify(Text(r.q)), topic |-> "general",
     created_at |-> r.created_at, embedding |-> embed(r.q),
     expires_at |-> IF Live(key(r.q)) THEN store[key(r.q)].expires_at ELSE None]

\* store, line 189: redis_client.hset
\* the key is made of the query and a sequence number: a second write of a
\* query adds an entry
Hset_fresh_key(t, outcome) ==
    LET r == th[t] IN
    /\ r.pc = "hset"
    /\ \/ /\ outcome = "ok"
          /\ store' = IF store[r.q] = NoEntry
                      THEN [store EXCEPT ![r.q] = Mapping(r)]
                      ELSE [store EXCEPT !["a"] = Mapping(r)]
          /\ th' = [th EXCEPT ![t].pc = "expire", ![t].rts = @ + 1]
          /\ UNCHANGED <<cb, grants>>
       \/ /\ outcome \in StoreErrors \cap StoreCaught
          /\ cb["redis"].failure_count < MaxFailureCount
          /\ cb' = [cb EXCEPT !["redis"] = record_failure(@, now)]
          /\ CountGrants("redis", FALSE)
          /\ th' = [th EXCEPT ![t] = StoreReturns([r EXCEPT !.rts = @ + 1])]
          /\ UNCHANGED store
       \/ /\ outcome \in StoreErrors \ StoreCaught
          /\ th' = [th EXCEPT ![t] = Ret([r EXCEPT !.rts = @ + 1], outcome, NoVal)]
          /\ UNCHANGED <<cb, grants, store>>
    /\ CountTrips(1)
    /\ UNCHANGED <<now, redis_client, server, last>>
    /\ Recorded(t)

Hset(t, outcome) ==
    LET r == th[t] IN
    /\ r.pc = "hset"
    /\ \/ /\ outcome = "ok"
          /\ store' = [store EXCEPT ![key(r.q)] = Mapping(r)]
          /\ th' = [th EXCEPT ![t].pc = "expire", ![t].rts = @ + 1]
          /\ UNCHANGED <<cb, grants>>
       \/ /\ outcome \in StoreErrors \cap StoreCaught
          /\ cb["redis"].failure_count < MaxFailureCount
          /\ cb' = [cb EXCEPT !["redis"] = record_failure(@, now)]
          /\ CountGrants("redis", FALSE)
          /\ th' = [th EXCEPT ![t] = StoreReturns([r EXCEPT !.rts = @ + 1])]
          /\ UNCHANGED store
       \/ /\ outcome \in StoreErrors \ StoreCaught
          /\ th' = [th EXCEPT ![t] = Ret([r EXCEPT !.rts = @ + 1], outcome, NoVal)]
          /\ UNCHANGED <<cb, grants, store>>
    /\ CountTrips(1)
    /\ UNCHANGED <<now, redis_client, server, last>>
    /\ Recorded(t)

\* store, lines 190-195: redis_client.expire and the bookkeeping
Expire(t, outcome) ==
    LET r == th[t]
        ttl == get_caching_params(classify(Text(r.q))).ttl
    IN
    /\ r.pc = "expire"
    /\ \/ /\ outcome = "ok"
          /\ store' = [store EXCEPT ![key(r.q)].expires_at = now + ttl]
          /\ cb' = [cb EXCEPT !["redis"] = record_success(@)]
          /\ CountGrants("redis", FALSE)
          /\ th' = [th EXCEPT ![t] = StoreReturns([r EXCEPT !.rts = @ + 1])]
       \/ /\ outcome \in StoreErrors \cap StoreCaught
          /\ cb["redis"].failure_count < MaxFailureCount
          /\ cb' = [cb EXCEPT !["redis"] = record_failure(@, now)]
          /\ CountGrants("redis", FALSE)
          /\ th' = [th EXCEPT ![t] = StoreReturns([r EXCEPT !.rts = @ + 1])]
          /\ UNCHANGED store
       \/ /\ outcome \in StoreErrors \ StoreCaught
          /\ th' = [th EXCEPT ![t] = Ret([r EXCEPT !.rts = @ + 1], outcome, NoVal)]
          /\ UNCHANGED <<cb, grants, store>>
    /\ CountTrips(0)
    /\ UNCHANGED <<now, redis_client, server, last>>
    /\ Recorded(t)

\* lifespan startup, before any request is served: cache_service.connect()
\* lifespan startup: connect, and the exception of connect raised again,
\* which ends the process; the next instance starts without a client
Startup(config_outcome, info_outcome) ==
    /\ redis_client = "None"
    /\ \A t \in Threads : th[t].pc = "idle"
    /\ server' = connect(server, config_outcome, info_outcome)
    /\ redis_client' = IF server'.result = "ok" THEN "connected" ELSE "None"
    /\ UNCHANGED <<cb, now, th, store, last, grants, rtrips, metrics>>

\* lifespan shutdown: close
Close ==
    /\ redis_client = "connected"
    /\ \A t \in Threads : th[t].pc = "idle"
    /\ redis_client' = "None"
    /\ UNCHANGED <<cb, now, th, store, last, grants, rtrips, metrics, server>>

Connect ==
    /\ redis_client = "None"
    /\ \A t \in Threads : th[t] = IdleThread
    /\ redis_client' = "connected"
    /\ server' = connect(server, "ok", "ok")
    /\ UNCHANGED <<cb, now, th, store, last, grants, rtrips, metrics>>

\* the steps of thread t, for calls on the queries QS with the topics TS,
\* store round trips that end in SO and backend calls that end in LO with
\* an answer of CS
ThreadStep(t, QS, TS, SO, LO, CS) ==
    \/ \E q \in QS, force \in BOOLEAN : BeginProcessQuery(t, q, force)
    \/ \E q \in QS, topic \in TS : BeginSearch(t, q, topic)
    \/ Admission(t)
    \/ Permit(t)
    \/ \E outcome \in SO : SearchWithFilter(t, outcome)
    \/ \E outcome \in LO, content \in CS : GenerateAwait(t, outcome, content)
    \/ Cancel(t)
    \/ \E outcome \in SO : Hset(t, outcome)
    \/ \E outcome \in SO : Expire(t, outcome)

Environment ==
    \/ Connect
    \/ \E d \in TickSteps : Tick(d)

\* the service with an unreliable store and a backend that answers, one
\* caller at a time
Next ==
    \/ ThreadStep("t1", {"What is the capital of France?"}, SearchTopics,
                  {"ok"} \cup StoreErrors, {"ok"}, {"a1"})
    \/ Environment

Spec == Init /\ [][Next]_vars

\* search as a function of the store content: a healthy connected store
\* that holds any set of entries written by store(q, "a1", embed(q),
\* classify(q), ttl, topic) at time 0
StoredEntry(q, topic) ==
    [kind |-> "entry", query |-> q, response |-> "a1",
     query_type |-> classify(Text(q)), topic |-> topic,
     created_at |-> 0, embedding |-> embed(q),
     expires_at |-> get_caching_params(classify(Text(q))).ttl]

InitSearch ==
    /\ cb = [b \in Breakers |-> IF b = "redis" THEN redis_circuit ELSE llm_circuit]
    /\ now = 0
    /\ th = [t \in Threads |-> IdleThread]
    /\ redis_client = "connected"
    /\ \E tp \in [Queries -> EntryTopics \cup {"-"}] :
          store = [q \in Keys |->
                     IF q \notin Queries \/ tp[q] = "-" THEN NoEntry
                     ELSE StoredEntry(q, tp[q])]
    /\ last = NoCall
    /\ grants = [b \in Breakers |-> 0]
    /\ rtrips = 0
    /\ metrics = Projected
    /\ server = connect(FreshServer, "ok", "ok")

SearchNext ==
    \/ \E q \in Queries, topic \in SearchTopics : BeginSearch("t1", q, topic)
    \/ Admission("t1")
    \/ SearchWithFilter("t1", "ok")

SpecSearch == InitSearch /\ [][SearchNext]_vars

\* the requests of one caller at a time on a healthy store, with a backend
\* that may fail
ServiceQueries ==
    {"What is the capital of France?", "What's the weather in NYC today?"}

ServiceNext ==
    \/ \E q \in ServiceQueries, force \in BOOLEAN : BeginProcessQuery("t1", q, force)
    \/ Admission("t1")
    \/ Permit("t1")
    \/ SearchWithFilter("t1", "ok")
    \/ \E outcome \in {"ok", "RateLimitError", "APIError"}, content \in Contents :
          GenerateAwait("t1", outcome, content)
    \/ Hset("t1", "ok")
    \/ Expire("t1", "ok")
    \/ Connect
    \/ \E d \in TickSteps : Tick(d)

SpecService == Init /\ [][ServiceNext]_vars

\* the backend alone: requests served by a cache service that was never
\* connected, so that only llm_circuit is exercised
BackendNext ==
    \/ \E t \in Threads, q \in {"What is the capital of France?"}, force \in BOOLEAN :
          BeginProcessQuery(t, q, force)
    \/ \E t \in Threads : Admission(t)
    \/ \E t \in Threads : Permit(t)
    \/ \E t \in Threads, outcome \in {"ok", "RateLimitError", "APIError"},
          content \in {"a1", "", "None"} :
          GenerateAwait(t, outcome, content)
    \/ \E t \in Threads : Cancel(t)
    \/ \E d \in TickSteps : Tick(d)

SpecBackend == Init /\ [][BackendNext]_vars

\* ---- a breaker driven directly by concurrent callers ----

\* cb.state read by a caller
HState(t) ==
    /\ th[t].pc = "idle"
    /\ cb' = [cb EXCEPT !["redis"] = state(@, now)]
    /\ th' = [th EXCEPT ![t].ret = cb'["redis"].state]
    /\ Observe("redis", "state", cb'["redis"].state)
    /\ UNCHANGED <<now, redis_client, server, store, rtrips, metrics>>

\* is_available: the state read, and the answer when it needs no permit
HIsAvailable(t) ==
    /\ th[t].pc = "idle"
    /\ cb' = [cb EXCEPT !["redis"] = state(@, now)]
    /\ th' = [th EXCEPT ![t] =
                IF cb'["redis"].state = "closed" THEN [@ EXCEPT !.ret = "True"]
                ELSE IF cb'["redis"].state = "half_open"
                     THEN [@ EXCEPT !.pc = "permit", !.ret = "-"]
                     ELSE [@ EXCEPT !.ret = "False"]]
    /\ Observe("redis", "is_available", th'[t].ret)
    /\ UNCHANGED <<now, redis_client, server, store, rtrips, metrics>>

\* is_available: the permit accounting after a HALF_OPEN state read
HPermit(t) ==
    /\ th[t].pc = "permit"
    /\ IF permit_free(cb["redis"])
       THEN /\ cb' = [cb EXCEPT !["redis"] = take_permit(@)]
            /\ th' = [th EXCEPT ![t].pc = "idle", ![t].ret = "True"]
       ELSE /\ cb' = cb
            /\ th' = [th EXCEPT ![t].pc = "idle", ![t].ret = "False"]
    /\ Observe("redis", "is_available", th'[t].ret)
    /\ UNCHANGED <<now, redis_client, server, store, rtrips, metrics>>

HRecordSuccess(t) ==
    /\ th[t].pc = "idle"
    /\ cb' = [cb EXCEPT !["redis"] = record_success(@)]
    /\ th' = [th EXCEPT ![t].ret = "-"]
    /\ Observe("redis", "record_success", "-")
    /\ UNCHANGED <<now, redis_client, server, store, rtrips, metrics>>

HRecordFailure(t) ==
    /\ th[t].pc = "idle"
    /\ cb["redis"].failure_count < MaxFailureCount
    /\ cb' = [cb EXCEPT !["redis"] = record_failure(@, now)]
    /\ th' = [th EXCEPT ![t].ret = "-"]
    /\ Observe("redis", "record_failure", "-")
    /\ UNCHANGED <<now, redis_client, server, store, rtrips, metrics>>

BreakerNext ==
    \/ \E t \in Threads : HState(t)
    \/ \E t \in Threads : HIsAvailable(t)
    \/ \E t \in Threads : HPermit(t)
    \/ \E t \in Threads : HRecordSuccess(t)
    \/ \E t \in Threads : HRecordFailure(t)
    \/ \E d \in {1, 9} : Tick(d)

SpecBreaker == Init /\ [][BreakerNext]_vars

\* ---- properties of the service ----

\* thread t issues a round trip to the store in this step
IssuesTrip(t) ==
    /\ th[t].pc \in {"knn_topic", "knn_global", "hset", "expire"}
    /\ th'[t] # th[t]

\* C1: search never raises: no call ends with a store error raised to the
\* caller of search (every store failure makes search return None).
C1_SearchNeverRaises ==
    \A t \in Threads : th[t].ret \notin StoreErrors

\* C2: every entry present in the store has an expiration, also after a
\* store() call that failed between HSET and EXPIRE (stated for the states
\* in which no store() call is between its two round trips).
C2_EveryEntryExpires ==
    (\A t \in Threads : th[t].pc # "expire")
        => \A q \in Queries : store[q] # NoEntry => store[q].expires_at # None

\* C3: a half-open permit is released when its holder finishes without
\* recording an outcome: once no caller is waiting for the backend, the
\* backend breaker is not HALF_OPEN with every permit consumed.
C3_PermitReleased ==
    (\A t \in Threads : th[t].pc # "gen_await")
        => ~(cb["llm"].state = "half_open" /\ ~permit_free(cb["llm"]))

\* C5: no round trip to the store is issued while the store breaker is
\* OPEN, and in HALF_OPEN no more store operations (KNN query, write) are
\* issued than is_available() has granted permits.
C5_TripsArePermitted ==
    [][\A t \in Threads : IssuesTrip(t) =>
          /\ cb["redis"].state # "open"
          /\ (cb["redis"].state = "half_open" /\ th[t].pc # "expire")
                => rtrips < grants["redis"]]_vars

\* C6: a process_query invocation made while the store breaker is OPEN
\* within its recovery timeout performs no store read and no store write
\* for as long as that lasts, and what it returns is the backend's answer
\* (source "llm"), never a cached one.
C6_OpenStoreBypassed ==
    \A t \in Threads :
        (th[t].op = "process_query" /\ th[t].open_all) =>
            /\ th[t].rts = 0
            /\ th[t].pc \notin {"knn_topic", "knn_global", "hset", "expire",
                                "search_permit", "store_permit"}
            /\ th[t].ret = "returned" => th[t].val.source = "llm"

C6_Witness ==
    \E t \in Threads :
        /\ th[t].op = "process_query" /\ ~th[t].force /\ th[t].open_all
        /\ th[t].ret = "returned" /\ th[t].val.source = "llm"
        /\ StoreOpenUnexpired(now)
        /\ redis_client = "connected"

\* the part of process_query that runs cache_service.store
InStore(r) ==
    r.op = "process_query" /\ r.pc \in {"store", "store_permit", "hset", "expire"}

\* C11: store never raises: a process_query call that leaves store returns
\* the backend's answer as a result; a failed HSET or EXPIRE is recorded
\* as a failure of the store breaker; a store refused by the client check
\* or by the breaker writes nothing.
C11_StoreNeverRaises ==
    [][\A t \in Threads : (InStore(th[t]) /\ th'[t].pc = "idle") =>
          /\ th'[t].ret = "returned"
          /\ th'[t].val = [kind |-> "result", response |-> th[t].response,
                           source |-> "llm"]
          /\ th[t].pc = "hset" =>
                cb'["redis"] = record_failure(cb["redis"], now)
          /\ th[t].pc = "expire" =>
                \/ /\ store'[th[t].q].expires_at # None
                   /\ cb'["redis"] = record_success(cb["redis"])
                \/ /\ store' = store
                   /\ cb'["redis"] = record_failure(cb["redis"], now)
          /\ th[t].pc \in {"store", "store_permit"} =>
                (store' = store /\ th'[t].rts = th[t].rts)]_vars

C11_Witness ==
    \E t \in Threads :
        /\ th[t].op = "process_query" /\ th[t].force
        /\ th[t].ret = "returned" /\ th[t].val.source = "llm"
        /\ th[t].rts = 1 /\ store[th[t].q] = NoEntry
        /\ cb["redis"].last_failure_time = now

\* a search call of thread record r has returned
SearchDone(r) == r.op = "search" /\ r.pc = "idle" /\ r.ret \in {"None", "hit"}

\* the entries a KNN query with the topic filter tp may return as a hit
\* for the search of r
Eligible(r, tp) == {k \in Knn(embed(r.q), tp) : HitOf(r, k) # NoVal}

\* C12: every hit returned by search is an entry at distance <= the
\* threshold of the call, and a search returns no hit only if every entry
\* is at distance > threshold (an entry at distance = threshold is a hit).
C12_HitWithinThreshold ==
    \A t \in Threads : SearchDone(th[t]) =>
        /\ th[t].ret = "hit" =>
              /\ th[t].val.distance <= Threshold(th[t])
              /\ Live(th[t].val.query)
              /\ th[t].val.distance =
                    Distance(embed(th[t].q), store[th[t].val.query].embedding)
        /\ th[t].ret = "None" =>
              \A k \in Queries : Live(k) =>
                  Distance(embed(th[t].q), store[k].embedding) > Threshold(th[t])

C12_Witness ==
    \E t \in Threads :
        /\ SearchDone(th[t]) /\ th[t].ret = "hit"
        /\ th[t].val.distance = Threshold(th[t])
        /\ \E k \in Queries : Live(k) /\
              Distance(embed(th[t].q), store[k].embedding) = Threshold(th[t]) + 1

\* C13: whenever a single global nearest-neighbour search with the same
\* threshold would return a hit, the two-phase search returns a hit.
C13_NoFalseNegative ==
    \A t \in Threads :
        (SearchDone(th[t]) /\ Eligible(th[t], "-") # {}) => th[t].ret = "hit"

C13_Witness ==
    \E t \in Threads :
        /\ SearchDone(th[t]) /\ th[t].topic \notin {"-", "general"}
        /\ Eligible(th[t], "-") # {} /\ Eligible(th[t], th[t].topic) = {}
        /\ th[t].ret = "hit" /\ th[t].rts = 2

\* C14: a search with a specific topic returns the nearest entry of that
\* topic whenever it is within the threshold, whatever the other topics
\* hold, and the global query is made only for the topic general or
\* absent, or after a topic pass without an eligible match.
C14_TopicPassFirst ==
    \A t \in Threads : SearchDone(th[t]) =>
        IF th[t].topic \in {"-", "general"}
        THEN th[t].rts = 1
        ELSE IF Eligible(th[t], th[t].topic) # {}
             THEN /\ th[t].ret = "hit"
                  /\ th[t].val.query \in Eligible(th[t], th[t].topic)
                  /\ th[t].val.topic = th[t].topic
                  /\ th[t].rts = 1
             ELSE th[t].rts = 2

C14_Witness ==
    \E t \in Threads :
        /\ SearchDone(th[t]) /\ th[t].topic \notin {"-", "general"}
        /\ th[t].ret = "hit" /\ th[t].val.topic = th[t].topic /\ th[t].rts = 1
        /\ \E k \in Queries : /\ Live(k) /\ store[k].topic # th[t].topic
              /\ Distance(embed(th[t].q), store[k].embedding) < th[t].val.distance

\* the keys present in the store
Present == {k \in Keys : store[k] # NoEntry}

\* C15: storing a query whose entry exists overwrites it in place: HSET
\* replaces the fields of the entry at the key of the query and adds no
\* other entry, and EXPIRE sets the expiration to now + the TTL of this
\* store.
C15_StoreOverwrites ==
    [][\A t \in Threads :
         LET q == th[t].q IN
         /\ (th[t].pc = "hset" /\ th'[t].pc = "expire") =>
               /\ Present' = Present \cup {q}
               /\ \A k \in Queries \ {q} : store'[k] = store[k]
               /\ store'[q].query = q
               /\ store'[q].response = th[t].response
               /\ store'[q].created_at = th[t].created_at
         /\ (th[t].pc = "expire" /\ th'[t].pc = "idle") =>
               /\ Present' = Present
               /\ store'[q].expires_at =
                     now + get_caching_params(classify(Text(q))).ttl
               /\ store'[q].response = store[q].response]_vars

C15_Witness ==
    \E t \in Threads :
        /\ th[t].op = "process_query" /\ th[t].had /\ th[t].force
        /\ th[t].ret = "returned" /\ th[t].rts = 2
        /\ store[th[t].q].response = "a2" /\ th[t].val.response = "a2"
        /\ store[th[t].q].created_at > 0
        /\ Present = {th[t].q}

\* C16: once no store() call is between its two round trips, every entry
\* of the store has expires_at - created_at equal to the TTL of its class
\* (300 for time_sensitive, 604800 for evergreen).
C16_TtlOfClass ==
    (\A t \in Threads : th[t].pc # "expire") =>
        \A q \in Queries : store[q] # NoEntry =>
            store[q].expires_at - store[q].created_at
                = get_caching_params(store[q].query_type).ttl

\* a process_query call of thread record r has ended
QueryDone(r) == r.op = "process_query" /\ r.pc = "idle"

\* the errors generate raises to the caller of process_query
BackendErrors == {"LLMRateLimitError", "LLMServiceUnavailableError"}

\* C17: a process_query call invokes generate at most once, and not at all
\* when it answers from the cache; a call that ends with a backend error
\* (failure or rejection by the breaker) has invoked generate exactly once.
C17_GenerateAtMostOnce ==
    \A t \in Threads : th[t].op = "process_query" =>
        /\ th[t].gen <= 1
        /\ th[t].api <= th[t].gen
        /\ (QueryDone(th[t]) /\ th[t].ret = "returned"
               /\ th[t].val.source = "cache") => th[t].gen = 0
        /\ (QueryDone(th[t]) /\ th[t].ret \in BackendErrors) => th[t].gen = 1

C17_Witness ==
    \E t \in Threads :
        /\ QueryDone(th[t]) /\ ~th[t].force /\ th[t].rts = 1
        /\ th[t].ret = "LLMRateLimitError"
        /\ th[t].gen = 1 /\ th[t].api = 1

\* C18: a process_query call with force_refresh never searches the store,
\* calls generate once, and when it returns a result that result is the
\* backend's answer with source "llm", sent to the backend once, and the
\* entry of the query in a connected store holds that answer.
C18_ForceRefresh ==
    \A t \in Threads : (th[t].op = "process_query" /\ th[t].force) =>
        /\ th[t].pc \notin {"search", "search_permit", "knn_topic", "knn_global"}
        /\ th[t].pc # "generate" => th[t].gen = 1
        /\ (QueryDone(th[t]) /\ th[t].ret = "returned") =>
              /\ th[t].val.source = "llm"
              /\ th[t].api = 1
              /\ th[t].rts = IF redis_client = "connected" THEN 2 ELSE 0
              /\ redis_client = "connected" =>
                    /\ Live(th[t].q)
                    /\ store[th[t].q].response = th[t].val.response

C18_Witness ==
    \E t \in Threads :
        /\ QueryDone(th[t]) /\ th[t].force /\ th[t].had
        /\ th[t].ret = "returned" /\ th[t].val.source = "llm"
        /\ th[t].val.response = "a1" /\ store[th[t].q].response = "a1"
        /\ store[th[t].q].created_at = now /\ now > 0

\* C19: with a healthy store, a process_query answered by the backend has
\* made one backend call and leaves a live entry with its answer, and a
\* later process_query of the same query that finds this entry live is
\* answered from the cache with the stored response and makes no backend
\* call.
C19_SecondQueryHits ==
    \A t \in Threads : (QueryDone(th[t]) /\ redis_client = "connected") =>
        /\ (th[t].ret = "returned" /\ th[t].val.source = "llm") =>
              /\ th[t].api = 1
              /\ Live(th[t].q)
              /\ store[th[t].q].response = th[t].val.response
        /\ (th[t].had /\ ~th[t].force) =>
              /\ th[t].ret = "returned"
              /\ th[t].val.source = "cache"
              /\ th[t].val.response = store[th[t].q].response
              /\ th[t].gen = 0 /\ th[t].api = 0

C19_Witness ==
    \E t \in Threads :
        /\ QueryDone(th[t]) /\ th[t].had /\ ~th[t].force
        /\ th[t].ret = "returned" /\ th[t].val.source = "cache"
        /\ th[t].val.response = "a2" /\ th[t].val.confidence = 100000
        /\ th[t].q = "What's the weather in NYC today?"
        /\ store[th[t].q].created_at < now

\* thread record r is inside is_available of llm_circuit, called by generate
InGenerateGate(r) == r.pc \in {"generate", "gen_permit"}

\* C20: generate asks the backend breaker first: a request is sent to the
\* backend only in a step in which is_available() of llm_circuit returns
\* True, and a generate that is denied admission ends at once with
\* LLMServiceUnavailableError without a request to the backend.
C20_BreakerBeforeBackend ==
    [][\A t \in Threads :
         /\ th'[t].api > th[t].api =>
               /\ InGenerateGate(th[t])
               /\ \/ th[t].pc = "generate" /\ cb'["llm"].state = "closed"
                  \/ th[t].pc = "gen_permit" /\ permit_free(cb["llm"])
         /\ (InGenerateGate(th[t]) /\ th'[t].pc # th[t].pc
               /\ ~(\/ th[t].pc = "generate" /\ cb'["llm"].state # "open"
                    \/ th[t].pc = "gen_permit" /\ permit_free(cb["llm"]))) =>
               /\ th'[t].pc = "idle"
               /\ th'[t].ret = "LLMServiceUnavailableError"
               /\ th'[t].api = th[t].api
               /\ th'[t].api = 0]_vars

C20_Witness ==
    \E t \in Threads :
        /\ QueryDone(th[t]) /\ th[t].ret = "LLMServiceUnavailableError"
        /\ th[t].gen = 1 /\ th[t].api = 0
        /\ cb["llm"].state = "open"

\* ---- properties of the breaker ----

rc == cb["redis"]

\* C4: is_available() never returns True at a moment when the breaker's
\* state is OPEN, whatever the interleaving of concurrent callers.
C4_NoGrantWhileOpen ==
    [][\A t \in Threads :
         ((HIsAvailable(t) \/ HPermit(t)) /\ th'[t].ret = "True")
            => cb'["redis"].state # "open"]_vars

\* C7: a CLOSED breaker opens exactly on the record_failure that makes N
\* consecutive failures: every record_failure adds one to failure_count,
\* every record_success resets it to 0, a CLOSED breaker always has fewer
\* than N counted failures, and it leaves CLOSED exactly when the count
\* reaches N.
C7_OpensAtThreshold ==
    /\ [](rc.state = "closed" => rc.failure_count < rc.failure_threshold)
    /\ [][\A t \in Threads :
            /\ HRecordSuccess(t) => cb'["redis"].failure_count = 0
            /\ HRecordFailure(t) =>
                  cb'["redis"].failure_count = rc.failure_count + 1
            /\ (HRecordFailure(t) /\ rc.state = "closed") =>
                  (cb'["redis"].state = "open"
                     <=> rc.failure_count + 1 = rc.failure_threshold)]_vars
    /\ [][(rc.state = "closed" /\ cb'["redis"].state # "closed")
            => \E t \in Threads : HRecordFailure(t)]_vars

C7_Witness ==
    /\ last.op = "record_failure" /\ last.pre = "closed"
    /\ rc.state = "open" /\ rc.failure_count = rc.failure_threshold

\* C8: while now - last_failure_time < recovery_timeout an OPEN breaker
\* stays OPEN and an is_available() that queries it is rejected; a state
\* query made once the timeout has elapsed moves it to HALF_OPEN with the
\* permit counter at 0.
C8_OpenUntilTimeout ==
    [][rc.state = "open" =>
         IF now - rc.last_failure_time < rc.recovery_timeout
         THEN /\ cb'["redis"].state = "open"
              /\ \A t \in Threads : HIsAvailable(t) => th'[t].ret = "False"
         ELSE (\E t \in Threads : HState(t) \/ HIsAvailable(t)) =>
                 /\ cb'["redis"].state = "half_open"
                 /\ cb'["redis"].half_open_calls = 0]_vars

C8_Witness ==
    /\ last.op \in {"state", "is_available"} /\ last.pre = "open"
    /\ rc.state = "half_open" /\ rc.half_open_calls = 0
    /\ now - rc.last_failure_time >= rc.recovery_timeout

\* C9: in HALF_OPEN a record_success closes the breaker with
\* failure_count 0, and a record_failure opens it and sets
\* last_failure_time to the current time, whatever failure_count is.
C9_HalfOpenOutcome ==
    [][\A t \in Threads : rc.state = "half_open" =>
         /\ HRecordSuccess(t) =>
               (cb'["redis"].state = "closed" /\ cb'["redis"].failure_count = 0)
         /\ HRecordFailure(t) =>
               (cb'["redis"].state = "open"
                  /\ cb'["redis"].last_failure_time = now)]_vars

C9_Witness ==
    /\ last.op = "record_failure" /\ last.pre = "half_open"
    /\ rc.state = "open" /\ rc.failure_count < rc.failure_threshold
    /\ rc.last_failure_time = now

\* C10: while the breaker stays HALF_OPEN after an OPEN->HALF_OPEN
\* transition, is_available() has returned True at most
\* half_open_max_calls times since that transition.
C10_HalfOpenGrantsBounded ==
    \A b \in Breakers :
        cb[b].state = "half_open" => grants[b] <= cb[b].half_open_max_calls

C10_Witness ==
    /\ rc.state = "half_open" /\ grants["redis"] = rc.half_open_max_calls
    /\ last.op = "is_available" /\ last.ret = "False"

\* ---------------------------------------------------------------------
\* The classifier on its own: classify_full applied to every text of at
\* most MaxTextLen items over the vocabulary below.
MaxTextLen == 3

Vocabulary == {"history", "of", "weather", "stock", "price", "today"}

Items == {Word(w) : w \in Vocabulary} \cup {Upper(w) : w \in Vocabulary} \cup {Space}

Texts == UNION {[1..n -> Items] : n \in 1..MaxTextLen}

\* classify_full: the class, the topic and the caching parameters of the class
classify_full(query) ==
    LET query_type == classify(query)
        topic == classify_topic(query)
        params == get_caching_params(query_type)
    IN  [query_type |-> query_type, topic |-> topic,
         threshold |-> params.threshold, ttl |-> params.ttl]

InitClassifier ==
    /\ cb = [b \in Breakers |-> IF b = "redis" THEN redis_circuit ELSE llm_circuit]
    /\ now = 0
    /\ \E text \in Texts :
          th = [t \in Threads |-> IF t = "t1" THEN [IdleThread EXCEPT !.q = text]
                                  ELSE IdleThread]
    /\ redis_client = "None"
    /\ store = [q \in Keys |-> NoEntry]
    /\ last = NoCall
    /\ grants = [b \in Breakers |-> 0]
    /\ rtrips = 0
    /\ metrics = Projected
    /\ server = FreshServer

ClassifyFull(t) ==
    /\ th[t].pc = "idle"
    /\ th' = [th EXCEPT ![t] = [@ EXCEPT !.pc = "returned", !.op = "classify_full",
                                         !.val = classify_full(th[t].q)]]
    /\ UNCHANGED <<cb, now, redis_client, server, store, last, grants, rtrips, metrics>>

ClassifierNext == ClassifyFull("t1")

SpecClassifier == InitClassifier /\ [][ClassifierNext]_vars

\* a thread that returned from classify_full
Classified(r) == r.op = "classify_full" /\ r.pc = "returned"

\* the text holds, whatever the case of its letters, a phrase of the list
HasMarker(patterns, text) ==
    \E i \in 1..Len(patterns) : \E alt \in patterns[i] :
        \E k \in 0..(Len(text) - Len(alt)) :
            \A j \in 1..Len(alt) : text[k + j].w = alt[j]

\* C28: classify returns evergreen for every query that holds an evergreen
\* marker, however many time-sensitive words it holds as well; without a
\* marker it returns time_sensitive when at least one time-sensitive
\* pattern matches and evergreen when none does; and the class of a query
\* is the class of its lower-cased form.
C28_Classify ==
    \A t \in Threads : Classified(th[t]) =>
        /\ th[t].val.query_type =
              IF HasMarker(EVERGREEN_PATTERNS, th[t].q) THEN "evergreen"
              ELSE IF HasMarker(TIME_SENSITIVE_PATTERNS, th[t].q) THEN "time_sensitive"
              ELSE "evergreen"
        /\ th[t].val.query_type = classify(lower(th[t].q))

C28_Witness ==
    \E t \in Threads :
        /\ Classified(th[t])
        /\ th[t].q = <<Upper("history"), Word("of"), Upper("weather")>>
        /\ th[t].val.query_type = "evergreen"

\* the number of patterns of the i-th topic found in the text, whatever the
\* case of its letters
TopicCount(i, text) ==
    Cardinality({k \in 1..Len(TOPIC_PATTERNS[i].patterns) :
                    HasMarker(<<TOPIC_PATTERNS[i].patterns[k]>>, text)})

\* C29: classify_topic returns the topic with the strictly highest number
\* of matching patterns, and general when two or more topics tie for the
\* highest number or when no topic matches.
C29_StrictlyHighestTopic ==
    \A t \in Threads : Classified(th[t]) =>
        LET q == th[t].q
            top == {i \in 1..Len(TOPIC_PATTERNS) :
                      /\ TopicCount(i, q) > 0
                      /\ \A k \in 1..Len(TOPIC_PATTERNS) :
                            k # i => TopicCount(k, q) < TopicCount(i, q)}
        IN  th[t].val.topic =
               IF top # {} THEN TOPIC_PATTERNS[CHOOSE i \in top : TRUE].topic
               ELSE "general"

\* C26: process_query threads the classified topic through the request; in
\* particular an entry it has just stored is tagged with the topic that
\* classify_topic gives for the query.
C26_TopicThreaded ==
    \A t \in Threads :
        LET r == th[t] IN
        (/\ QueryDone(r) /\ r.ret = "returned" /\ r.val.source = "llm"
         /\ r.rts = 2 /\ store[r.q] # NoEntry /\ store[r.q].response = r.val.response)
            => store[r.q].topic = classify_topic(Text(r.q))

\* C21: every admitted backend call records exactly one outcome on the
\* backend breaker when it ends: a rate-limit signal raises
\* LLMRateLimitError after record_failure, any other backend error raises
\* LLMServiceUnavailableError after record_failure, and a result is
\* returned after record_success, a null or empty one as the empty text.
C21_OneOutcomePerCall ==
    [][\A t \in Threads :
         (th[t].pc = "gen_await" /\ th'[t].pc # "gen_await") =>
            \/ /\ th'[t].pc = "store"
               /\ th'[t].response \in Contents \cup {""}
               /\ cb'["llm"] = record_success(cb["llm"])
            \/ /\ th'[t].pc = "idle"
               /\ th'[t].ret \in {"LLMRateLimitError", "LLMServiceUnavailableError"}
               /\ cb'["llm"] = record_failure(cb["llm"], now)]_vars

\* ---------------------------------------------------------------------
\* The Metrics registry on its own: any sequence of its calls, with at
\* most MaxQueries record_* calls since the last reset.
Latencies == {0, 5}

HistogramTopics == {"geography", "weather"}

\* the record_* calls the registry holds
Calls(m) ==
    LET count(tp) == IF tp \in DOMAIN m.topic_counts THEN m.topic_counts[tp] ELSE 0 IN
    m.total_queries + m.errors + m.time_sensitive_queries + m.evergreen_queries
      + count("geography") + count("weather")

InitMetrics ==
    /\ cb = [b \in Breakers |-> IF b = "redis" THEN redis_circuit ELSE llm_circuit]
    /\ now = 0
    /\ th = [t \in Threads |-> IdleThread]
    /\ redis_client = "None"
    /\ store = [q \in Keys |-> NoEntry]
    /\ last = NoCall
    /\ grants = [b \in Breakers |-> 0]
    /\ rtrips = 0
    /\ metrics = Metrics0
    /\ server = FreshServer

\* history: the call made on the registry and whether the registry held
\* hits, misses and topics before it
MetricsCall(op) ==
    /\ last' = [b |-> "metrics", op |-> op,
                pre |-> IF /\ metrics.cache_hits > 0 /\ metrics.cache_misses > 0
                           /\ metrics.total_latency_ms > 0
                           /\ metrics.topic_counts # <<>>
                        THEN "busy" ELSE "-",
                ret |-> "-"]
    /\ UNCHANGED <<cb, now, th, redis_client, server, store, grants, rtrips>>

MRecordCacheHit(latency_ms) ==
    /\ Calls(metrics) < MaxQueries
    /\ metrics' = record_cache_hit(metrics, latency_ms)
    /\ MetricsCall("record_cache_hit")

MRecordCacheMiss(latency_ms) ==
    /\ Calls(metrics) < MaxQueries
    /\ metrics' = record_cache_miss(metrics, latency_ms)
    /\ MetricsCall("record_cache_miss")

MRecordQueryType(query_type) ==
    /\ Calls(metrics) < MaxQueries
    /\ metrics' = record_query_type(metrics, query_type)
    /\ MetricsCall("record_query_type")

MRecordTopic(topic) ==
    /\ Calls(metrics) < MaxQueries
    /\ metrics' = record_topic(metrics, topic)
    /\ MetricsCall("record_topic")

MRecordError ==
    /\ Calls(metrics) < MaxQueries
    /\ metrics' = record_error(metrics)
    /\ MetricsCall("record_error")

MReset ==
    /\ metrics' = reset(metrics)
    /\ MetricsCall("reset")

\* a snapshot, kept as the value the last call returned
MGetStats ==
    /\ last' = [b |-> "metrics", op |-> "get_stats", pre |-> "-",
                ret |-> get_stats(metrics)]
    /\ UNCHANGED <<cb, now, th, redis_client, server, store, grants, rtrips, metrics>>

MetricsNext ==
    \/ \E latency_ms \in Latencies : MRecordCacheHit(latency_ms)
    \/ \E latency_ms \in Latencies : MRecordCacheMiss(latency_ms)
    \/ \E query_type \in {"time_sensitive", "evergreen"} : MRecordQueryType(query_type)
    \/ \E topic \in HistogramTopics : MRecordTopic(topic)
    \/ MRecordError
    \/ MReset
    \/ MGetStats

SpecMetrics == InitMetrics /\ [][MetricsNext]_vars

\* C24: after any sequence of record_* and reset calls, total_queries =
\* cache_hits + cache_misses and llm_calls = cache_misses; and after reset
\* every counter and every latency sum is 0 and the topic histogram is empty.
C24_MetricsIdentities ==
    /\ metrics.total_queries = metrics.cache_hits + metrics.cache_misses
    /\ metrics.llm_calls = metrics.cache_misses
    /\ last.op = "reset" =>
          /\ \A f \in DOMAIN metrics \ {"topic_counts"} : metrics[f] = 0
          /\ DOMAIN metrics.topic_counts = {}

C24_Witness ==
    /\ last.op = "reset" /\ last.pre = "busy"
    /\ metrics.total_queries = 0 /\ metrics.topic_counts = <<>>

\* C34: in every state of the registry get_stats reports the hit rate as
\* cache_hits / total_queries in percent rounded to two decimals, 0 when
\* total_queries is 0, each average latency as its sum divided by its own
\* count rounded to two decimals, 0 when that count is 0, and no snapshot
\* divides by zero.
C34_GetStats ==
    last.op = "get_stats" =>
        LET s == last.ret
            m == metrics
            \* x lies within half a hundredth of num / den
            Nearest(x, num, den) ==
                LET d == x * den - 100 * num
                IN  2 * (IF d < 0 THEN -d ELSE d) <= den
            Is(x, num, den) ==
                /\ x # ZeroDivisionError
                /\ IF den = 0 THEN x = 0 ELSE Nearest(x, num, den)
        IN  /\ Is(s.hit_rate_percent, 100 * m.cache_hits, m.total_queries)
            /\ Is(s.latency.avg_total_ms, m.total_latency_ms, m.total_queries)
            /\ Is(s.latency.avg_cache_ms, m.cache_latency_ms, m.cache_hits)
            /\ Is(s.latency.avg_llm_ms, m.llm_latency_ms, m.llm_calls)
            /\ s.total_queries = m.total_queries
            /\ s.cache_hits = m.cache_hits /\ s.cache_misses = m.cache_misses

\* one hit in three queries: 33.33 percent, and 10 ms over 3 queries: 3.33
C34_Witness ==
    /\ last.op = "get_stats"
    /\ metrics.total_queries = 3 /\ metrics.cache_hits = 1
    /\ last.ret.hit_rate_percent = 3333
    /\ metrics.total_latency_ms = 10 /\ last.ret.latency.avg_total_ms = 333
    /\ last.ret.latency.avg_cache_ms = 0

\* ---------------------------------------------------------------------
\* The query endpoint.  app/main.py mounts the router of app/api/routes.py,
\* which validates with app/api/schemas.py and calls process_query of
\* app/core/semantic_cache.py; app/routes.py is the router over
\* app/schemas.py and app/services/semantic_cache.py.
Routers == {"app.routes", "app.api.routes"}

\* QueryRequest: min_length=1 in both schemas; app/schemas.py also rejects
\* a query that str.strip() leaves empty
Valid(router, query) ==
    /\ Len(query) >= 1
    /\ router = "app.routes" => \E i \in 1..Len(query) : query[i] # Space

\* the queries sent to the endpoint
RequestQueries == {"", "   ", "a", "What is the capital of France?"}

\* POST /api/query up to the first await: validation of the body, then the
\* start of process_query.  process_query of app/core/semantic_cache.py
\* unpacks the string that classify returns into two names and ends with
\* ValueError.
Query(t, router, q, force) ==
    /\ th[t].pc = "idle"
    /\ IF ~Valid(router, Text(q))
       THEN /\ th' = [th EXCEPT ![t] =
                        [IdleThread EXCEPT !.op = "query", !.q = q, !.force = force,
                                           !.via = router,
                                           !.ret = "RequestValidationError"]]
            /\ UNCHANGED metrics
       ELSE IF router = "app.api.routes"
       THEN /\ th' = [th EXCEPT ![t] =
                        [IdleThread EXCEPT !.op = "process_query", !.q = q,
                                           !.force = force, !.via = router,
                                           !.cls = 1, !.ret = "ValueError"]]
            /\ UNCHANGED metrics
       ELSE /\ th' = [th EXCEPT ![t] =
                        [IdleThread EXCEPT
                            !.pc = IF force THEN "generate" ELSE "search",
                            !.op = "process_query", !.q = q, !.force = force,
                            !.open_all = StoreOpenUnexpired(now),
                            !.had = redis_client = "connected" /\ Live(q),
                            !.cls = 1, !.via = router,
                            !.start_time = IF metrics = Projected THEN None ELSE now]]
            /\ metrics # Projected =>
                  metrics.time_sensitive_queries + metrics.evergreen_queries < MaxQueries
            /\ metrics' = IF metrics = Projected THEN metrics
                          ELSE record_query_type(metrics, classify(Text(q)))
    /\ UNCHANGED <<cb, now, redis_client, server, store, last, grants, rtrips>>

\* the status of the response to a request that has ended: 0 when the task
\* was cancelled, which no except clause catches and which sends no response
status_code(r) ==
    IF r.ret = "returned" THEN 200
    ELSE IF r.ret = "RequestValidationError" THEN 422
    ELSE IF r.ret = "CancelledError" THEN 0
    ELSE IF r.via = "app.api.routes" THEN 500
    ELSE IF r.ret = "LLMRateLimitError" THEN 429
    ELSE IF r.ret = "LLMServiceUnavailableError" THEN 502
    ELSE 500

\* the application after startup: lifespan has connected the store
InitEndpoint ==
    /\ cb = [b \in Breakers |-> IF b = "redis" THEN redis_circuit ELSE llm_circuit]
    /\ now = 0
    /\ th = [t \in Threads |-> IdleThread]
    /\ redis_client = "connected"
    /\ store = [q \in Keys |-> NoEntry]
    /\ last = NoCall
    /\ grants = [b \in Breakers |-> 0]
    /\ rtrips = 0
    /\ metrics = Metrics0
    /\ server = connect(FreshServer, "ok", "ok")

EndpointNext ==
    \/ \E router \in Routers, q \in RequestQueries, force \in BOOLEAN :
          Query("t1", router, q, force)
    \/ Admission("t1")
    \/ Permit("t1")
    \/ \E outcome \in {"ok", "ConnectionError"} : SearchWithFilter("t1", outcome)
    \/ \E outcome \in {"ok", "RateLimitError", "APIError"} :
          GenerateAwait("t1", outcome, "a1")
    \/ Hset("t1", "ok")
    \/ Expire("t1", "ok")
    \/ Tick(30)

SpecEndpoint == InitEndpoint /\ [][EndpointNext]_vars

\* a request to the endpoint that has ended
RequestDone(r) == r.via # "-" /\ r.pc = "idle"

\* C22: the endpoint maps each failure to one status: a validation failure
\* to 422, a backend rate limit to 429, an unavailable backend (an open
\* backend breaker included) to 502 and any other failure to 500; and a
\* failure of the store never produces an error status.
C22_StatusOfFailure ==
    \A t \in Threads :
        LET r == th[t] IN
        (RequestDone(r) /\ r.ret # "returned") =>
            /\ r.ret \notin StoreErrors
            /\ status_code(r) =
                  IF r.ret = "RequestValidationError" THEN 422
                  ELSE IF r.ret = "LLMRateLimitError" THEN 429
                  ELSE IF r.ret = "LLMServiceUnavailableError" THEN 502
                  ELSE 500

\* the query is empty or holds whitespace only
Blank(q) == \A i \in 1..Len(Text(q)) : Text(q)[i] = Space

\* C23: a request whose query is empty or whitespace only is answered 422
\* before any call of the classifier, the embedding, the store or the
\* backend, with the breakers, the metrics and the store unchanged; a
\* query of one non-whitespace character passes validation.
C23_BlankQueryRejected ==
    [][\A t \in Threads :
         (th[t].pc = "idle" /\ th'[t] # th[t] /\ th'[t].via # "-") =>
            /\ Blank(th'[t].q) =>
                  /\ th'[t].pc = "idle" /\ status_code(th'[t]) = 422
                  /\ th'[t].cls = 0 /\ th'[t].rts = 0
                  /\ th'[t].gen = 0 /\ th'[t].api = 0
                  /\ UNCHANGED <<cb, metrics, store>>
            /\ th'[t].q = "a" => th'[t].ret # "RequestValidationError"]_vars

\* C25: every invocation of process_query that ends, with a hit, with a
\* generated answer or with an error, is recorded by exactly one of
\* record_cache_hit, record_cache_miss and record_error.
C25_EveryEndRecorded ==
    [][\A t \in Threads :
         (/\ th[t].op = "process_query" /\ th[t].pc # "idle"
          /\ th'[t].pc = "idle" /\ metrics # Projected) =>
            LET latency_ms == (now - th[t].start_time) * 1000 IN
            metrics' \in {record_cache_hit(metrics, latency_ms),
                          record_cache_miss(metrics, latency_ms),
                          record_error(metrics)}]_vars

\* ---------------------------------------------------------------------
\* One caller, a healthy store and a backend that answers: a question and
\* a paraphrase of it, 0.20004 away.
SourceQueries == {"What is the capital of France?", "What's France's capital?"}

SourceNext ==
    \/ \E q \in SourceQueries, force \in BOOLEAN : BeginProcessQuery("t1", q, force)
    \/ Admission("t1")
    \/ SearchWithFilter("t1", "ok")
    \/ \E content \in Contents : GenerateAwait("t1", "ok", content)
    \/ Hset("t1", "ok")
    \/ Expire("t1", "ok")
    \/ \E d \in TickSteps : Tick(d)

InitSource ==
    /\ cb = [b \in Breakers |-> IF b = "redis" THEN redis_circuit ELSE llm_circuit]
    /\ now = 0
    /\ th = [t \in Threads |-> IdleThread]
    /\ redis_client = "connected"
    /\ store = [q \in Keys |-> NoEntry]
    /\ last = NoCall
    /\ grants = [b \in Breakers |-> 0]
    /\ rtrips = 0
    /\ metrics = Projected
    /\ server = connect(FreshServer, "ok", "ok")

SpecSource == InitSource /\ [][SourceNext]_vars

\* C27: process_query reports the source cache exactly when the response
\* was read from a stored entry and the source llm exactly when it was
\* generated in this invocation; the confidence is present on hits only,
\* where it is round(1 - distance, 4) for the distance of the entry read.
C27_SourceAndConfidence ==
    \A t \in Threads :
        LET r == th[t] IN
        (QueryDone(r) /\ r.ret = "returned") =>
            /\ r.val.source \in {"cache", "llm"}
            /\ r.val.source = "cache" <=> r.gen = 0
            /\ r.val.source = "cache" =>
                  \E k \in Keys :
                      /\ Live(k) /\ r.val.response = store[k].response
                      /\ r.val.confidence =
                            round4(100000 - Distance(embed(r.q), store[k].embedding))
            /\ r.val.source = "llm" =>
                  /\ "confidence" \notin DOMAIN r.val
                  /\ r.api = 1 /\ store[r.q].response = r.val.response

C27_Witness ==
    \E t \in Threads :
        /\ QueryDone(th[t]) /\ th[t].ret = "returned"
        /\ th[t].q = "What's France's capital?"
        /\ th[t].val.source = "cache" /\ th[t].val.response = "a2"
        /\ th[t].val.confidence = 80000
        /\ Distance(embed(th[t].q), store["What is the capital of France?"].embedding) = 20004
        /\ store[th[t].q] = NoEntry

\* ---------------------------------------------------------------------
\* Two callers submit the same question to a cold cache; the store and the
\* backend are healthy and the backend may answer the two calls differently.
RaceNext ==
    \/ \E t \in Threads : BeginProcessQuery(t, "What is the capital of France?", FALSE)
    \/ \E t \in Threads : Admission(t)
    \/ \E t \in Threads : SearchWithFilter(t, "ok")
    \/ \E t \in Threads, content \in Contents : GenerateAwait(t, "ok", content)
    \/ \E t \in Threads : Hset(t, "ok")
    \/ \E t \in Threads : Expire(t, "ok")
    \/ \E d \in TickSteps : Tick(d)

SpecRace == InitSource /\ [][RaceNext]_vars

\* both callers found the cache cold and returned a generated answer
BothGenerated ==
    \A t \in Threads :
        /\ QueryDone(th[t]) /\ th[t].ret = "returned" /\ ~th[t].had
        /\ th[t].val.source = "llm" /\ th[t].api = 1 /\ th[t].rts = 3

\* C30: when two concurrent invocations of process_query for one query on
\* a cold cache have both called the backend and finished, the store holds
\* exactly one entry, under the key of the query, and its response is the
\* answer of one of the two backend calls.
C30_OneEntryAfterRace ==
    BothGenerated =>
        /\ Present = {"What is the capital of France?"}
        /\ \E t \in Threads :
              store["What is the capital of France?"].response = th[t].val.response

C30_Witness ==
    /\ BothGenerated
    /\ th["t1"].val.response = "a1" /\ th["t2"].val.response = "a2"
    /\ store["What is the capital of France?"].response = "a1"

\* ---------------------------------------------------------------------
\* A breaker of any failure threshold from 1 up, driven by two callers.
Thresholds == 1..3

InitThresholds ==
    /\ \E failure_threshold \in Thresholds :
          cb = [b \in Breakers |->
                  IF b = "redis" THEN CircuitBreaker("redis", failure_threshold, 10)
                  ELSE llm_circuit]
    /\ now = 0
    /\ th = [t \in Threads |-> IdleThread]
    /\ redis_client = "None"
    /\ store = [q \in Keys |-> NoEntry]
    /\ last = NoCall
    /\ grants = [b \in Breakers |-> 0]
    /\ rtrips = 0
    /\ metrics = Projected
    /\ server = FreshServer

ThresholdsNext ==
    \/ \E t \in Threads : HIsAvailable(t)
    \/ \E t \in Threads : HPermit(t)
    \/ \E t \in Threads : HRecordSuccess(t)
    \/ \E t \in Threads : HRecordFailure(t)
    \/ Tick(10)

SpecThresholds == InitThresholds /\ [][ThresholdsNext]_vars

\* C38: in every reachable state of a breaker with failure_threshold >= 1,
\* a CLOSED breaker has failure_count < failure_threshold, and an OPEN or
\* HALF_OPEN breaker has last_failure_time set.
C38_BreakerInvariant ==
    \A b \in Breakers :
        /\ cb[b].failure_threshold >= 1
        /\ cb[b].state = "closed" => cb[b].failure_count < cb[b].failure_threshold
        /\ cb[b].state \in {"open", "half_open"} => cb[b].last_failure_time # None

C38_Witness ==
    /\ rc.failure_threshold = 1 /\ rc.state = "closed" /\ rc.failure_count = 0
    /\ rc.last_failure_time # None
    /\ last.op = "record_success" /\ last.pre = "half_open"

\* ---------------------------------------------------------------------
\* One caller, a healthy store, a backend that may fail and an embedding
\* model that may fail.
EmbedNext ==
    \/ \E force \in BOOLEAN :
          BeginProcessQuery("t1", "What is the capital of France?", force)
    \/ \E force \in BOOLEAN : EmbedRaises("t1", "What is the capital of France?", force)
    \/ Admission("t1")
    \/ Permit("t1")
    \/ SearchWithFilter("t1", "ok")
    \/ \E outcome \in {"ok", "APIError"} : GenerateAwait("t1", outcome, "a1")
    \/ Hset("t1", "ok")
    \/ Expire("t1", "ok")
    \/ \E d \in TickSteps : Tick(d)

SpecEmbed == InitSource /\ [][EmbedNext]_vars

\* C31: when embedding the query fails, process_query ends at once with
\* the failure: no search, no write and no backend call is made for it,
\* and the step leaves both breakers and the store as they were.
C31_EmbedFailureShortCircuits ==
    [][\A t \in Threads :
         th'[t].ret = "EmbedError" =>
            /\ th'[t].pc = "idle"
            /\ th'[t].rts = 0 /\ th'[t].gen = 0 /\ th'[t].api = 0
            /\ UNCHANGED <<cb, store>>]_vars

C31_Witness ==
    /\ th["t1"].op = "process_query" /\ th["t1"].ret = "EmbedError"
    /\ th["t1"].pc = "idle"
    /\ Present # {} /\ cb["llm"].state = "open"

\* C32: with a connected, healthy store and an available breaker, a search
\* with the vector of an unexpired entry, whatever the topic argument,
\* returns that entry, at distance 0.
C32_StoredIsRetrieved ==
    \A t \in Threads :
        LET r == th[t] IN
        (SearchDone(r) /\ Live(r.q) /\ store[r.q].embedding = embed(r.q)) =>
            /\ r.ret = "hit"
            /\ r.val.query = r.q /\ r.val.response = store[r.q].response
            /\ r.val.distance = 0

\* ---------------------------------------------------------------------
\* Startup, service and shutdown of instances on one Redis server.
ConnectNext ==
    \/ \E config_outcome \in {"ok", "ResponseError", "ConnectionError"},
          info_outcome \in {"ok", "ResponseError", "ConnectionError"} :
          Startup(config_outcome, info_outcome)
    \/ Close
    \/ \E force \in BOOLEAN :
          BeginProcessQuery("t1", "What is the capital of France?", force)
    \/ Admission("t1")
    \/ SearchWithFilter("t1", "ok")
    \/ \E content \in Contents : GenerateAwait("t1", "ok", content)
    \/ Hset("t1", "ok")
    \/ Expire("t1", "ok")

SpecConnect == Init /\ [][ConnectNext]_vars

\* C33: connect sets the volatile-ttl eviction policy and then ensures the
\* index: a refusal of the policy is logged and connect goes on to the
\* index; when connect returns the index exists; the index is created
\* exactly when it was absent, and an existing index is never created again.
C33_ConnectEnsuresIndex ==
    [][server' # server =>
         /\ server'.config = "ok" => server'.policy = "volatile-ttl"
         /\ server'.config = "ResponseError" =>
               /\ server'.warned /\ server'.policy = server.policy
               /\ server'.info # "-"
         /\ server'.config = "ConnectionError" =>
               /\ server'.info = "-" /\ server'.result # "ok"
         /\ server'.result = "ok" => (server'.index /\ redis_client' = "connected")
         /\ server.index => (server'.index /\ server'.creates = server.creates)
         /\ (~server.index /\ server'.info # "-" /\ server'.info # "ConnectionError")
               => (server'.index /\ server'.creates = server.creates + 1)
         /\ server'.creates <= 1]_vars

C33_Witness ==
    /\ server.config = "ResponseError" /\ server.warned /\ server.result = "ok"
    /\ server.policy = "noeviction"
    /\ server.index /\ server.creates = 1 /\ server.info = "ok"
    /\ redis_client = "connected" /\ Present # {}

\* ---------------------------------------------------------------------
\* The registry under concurrent callers.  Every method of Metrics runs in
\* `with self._lock`; inside, each `+=` is a load and a store of the field.
\* A thread is waiting at the `with`, or holds the lock until its last store.
Writers == {"record_cache_hit", "record_cache_miss", "record_error"}

\* the fields a method adds to, in the order of its statements
Statements(op) ==
    IF op = "record_cache_hit"
    THEN <<"total_queries", "cache_hits", "total_latency_ms", "cache_latency_ms">>
    ELSE IF op = "record_cache_miss"
    THEN <<"total_queries", "cache_misses", "llm_calls", "total_latency_ms",
           "llm_latency_ms">>
    ELSE <<"errors">>

\* what a statement adds to its field
Amount(f, latency_ms) ==
    IF f \in {"total_latency_ms", "cache_latency_ms", "llm_latency_ms"}
    THEN latency_ms ELSE 1

LockHeld == \E t \in Threads : th[t].pc \in {"locked", "loaded"}

\* history: the calls that have returned, by method, and whether a caller
\* arrived while the lock was held
NoCalls ==
    [record_cache_hit |-> 0, record_cache_miss |-> 0, record_error |-> 0,
     contended |-> FALSE]

InitLock ==
    /\ cb = [b \in Breakers |-> IF b = "redis" THEN redis_circuit ELSE llm_circuit]
    /\ now = 0
    /\ th = [t \in Threads |-> IdleThread]
    /\ redis_client = "None"
    /\ store = [q \in Keys |-> NoEntry]
    /\ last = [b |-> "metrics", op |-> "-", pre |-> NoCalls, ret |-> "-"]
    /\ grants = [b \in Breakers |-> 0]
    /\ rtrips = 0
    /\ metrics = Metrics0
    /\ server = FreshServer

LockFrame == UNCHANGED <<cb, now, redis_client, server, store, grants, rtrips>>

\* a thread calls a method of the registry and reaches its `with`
Call(t, op, latency_ms) ==
    /\ th[t].pc = "idle"
    /\ op \in Writers =>
          last.pre.record_cache_hit + last.pre.record_cache_miss
            + last.pre.record_error
            + Cardinality({u \in Threads :
                             th[u].pc # "idle" /\ th[u].op \in Writers})
               < MaxQueries
    /\ th' = [th EXCEPT ![t] = [IdleThread EXCEPT !.pc = "waiting", !.op = op,
                  !.val = [i |-> 1, reg |-> 0, latency_ms |-> latency_ms]]]
    /\ last' = [last EXCEPT !.pre.contended = @ \/ LockHeld]
    /\ UNCHANGED metrics
    /\ LockFrame

\* the method goes on without the lock
Acquire_no_lock(t) ==
    /\ th[t].pc = "waiting"
    /\ th[t].op \in Writers
    /\ th' = [th EXCEPT ![t].pc = "locked"]
    /\ UNCHANGED <<last, metrics>>
    /\ LockFrame

\* `with self._lock` of a record_* method: entered when no thread holds it
Acquire(t) ==
    /\ th[t].pc = "waiting"
    /\ th[t].op \in Writers
    /\ ~LockHeld
    /\ th' = [th EXCEPT ![t].pc = "locked"]
    /\ UNCHANGED <<last, metrics>>
    /\ LockFrame

\* the load of `self.f += x`
Load(t) ==
    /\ th[t].pc = "locked"
    /\ th' = [th EXCEPT ![t].pc = "loaded",
                        ![t].val.reg = metrics[Statements(th[t].op)[th[t].val.i]]]
    /\ UNCHANGED <<last, metrics>>
    /\ LockFrame

\* the store of `self.f += x`; after the last statement the lock is
\* released and the method returns
StoreField(t) ==
    /\ th[t].pc = "loaded"
    /\ LET op == th[t].op
           f == Statements(op)[th[t].val.i]
       IN  /\ metrics' = [metrics EXCEPT
                            ![f] = th[t].val.reg + Amount(f, th[t].val.latency_ms)]
           /\ IF th[t].val.i = Len(Statements(op))
              THEN /\ th' = [th EXCEPT ![t] = IdleThread]
                   /\ last' = [last EXCEPT !.op = op, !.pre[op] = @ + 1]
              ELSE /\ th' = [th EXCEPT ![t].pc = "locked", ![t].val.i = @ + 1]
                   /\ UNCHANGED last
    /\ LockFrame

\* get_stats: the whole snapshot is computed with the lock held
GetStats(t) ==
    /\ th[t].pc = "waiting"
    /\ th[t].op = "get_stats"
    /\ ~LockHeld
    /\ th' = [th EXCEPT ![t] = IdleThread]
    /\ last' = [last EXCEPT !.op = "get_stats", !.ret = get_stats(metrics)]
    /\ UNCHANGED metrics
    /\ LockFrame

LockNext ==
    \E t \in Threads :
        \/ \E op \in Writers \cup {"get_stats"} : Call(t, op, 5)
        \/ Acquire(t)
        \/ Load(t)
        \/ StoreField(t)
        \/ GetStats(t)

SpecLock == InitLock /\ [][LockNext]_vars

\* C37: whatever the interleaving of n record_cache_hit, m record_cache_miss
\* and k record_error calls of concurrent callers, once they have returned
\* cache_hits = n, cache_misses = m, llm_calls = m, total_queries = n + m and
\* errors = k; and every get_stats snapshot has
\* total_queries = cache_hits + cache_misses.
C37_NoLostUpdate ==
    /\ (\A t \in Threads : th[t].pc \in {"idle", "waiting"}) =>
          /\ metrics.cache_hits = last.pre.record_cache_hit
          /\ metrics.cache_misses = last.pre.record_cache_miss
          /\ metrics.llm_calls = last.pre.record_cache_miss
          /\ metrics.total_queries =
                last.pre.record_cache_hit + last.pre.record_cache_miss
          /\ metrics.errors = last.pre.record_error
    /\ last.op = "get_stats" =>
          last.ret.total_queries = last.ret.cache_hits + last.ret.cache_misses

C37_Witness ==
    /\ last.pre.contended
    /\ last.pre.record_cache_hit >= 1 /\ last.pre.record_cache_miss >= 1
    /\ last.pre.record_error >= 1
    /\ last.op = "get_stats" /\ last.ret.total_queries >= 2
    /\ \E t \in Threads : th[t].pc = "loaded" /\ th[t].op = "record_cache_hit"
                            /\ th[t].val.i = 2

\* C35: an entry is created or overwritten only by the store step of a
\* process_query call whose backend call has succeeded, and that step writes
\* the entry of its own query alone; a call that ends with a cache hit, a
\* backend failure or a rejection has no answer to store and ends without a
\* change of any entry or expiration; no step of search changes the store.
C35_OnlyStoreStepWrites ==
    [][/\ store' # store =>
            \E t \in Threads :
                /\ th[t].op = "process_query"
                /\ th[t].pc \in {"hset", "expire"}
                /\ th[t].response # "-" /\ th[t].api = 1
                /\ \A k \in Keys \ {th[t].q} : store'[k] = store[k]
       /\ \A t \in Threads :
            (/\ th[t].pc # "idle" /\ QueryDone(th'[t])
             /\ ~(th'[t].ret = "returned" /\ th'[t].val.source = "llm")) =>
                /\ th[t].response = "-"
                /\ th[t].pc \notin {"hset", "expire"}
                /\ store' = store]_vars

\* a forced refresh of a stored query has just failed at the backend, and
\* the entry is as the earlier call stored it
C35_Witness ==
    \E t \in Threads :
        /\ QueryDone(th[t]) /\ th[t].force /\ th[t].ret = "LLMRateLimitError"
        /\ Live(th[t].q) /\ store[th[t].q].response = "a1"
        /\ store[th[t].q].expires_at # None

\* ---------------------------------------------------------------------
\* One question spelled in three ways, each refreshed by force so that the
\* answer is stored whatever the store holds.
CaseQueries ==
    {"What is the capital of France?", "what is the capital of france?",
     " What is the capital of France? "}

\* str.strip: the text without its leading and trailing whitespace
strip(text) ==
    LET solid == {i \in 1..Len(text) : text[i] # Space} IN
    IF solid = {} THEN <<>>
    ELSE SubSeq(text, CHOOSE i \in solid : \A j \in solid : i <= j,
                      CHOOSE i \in solid : \A j \in solid : j <= i)

CaseNext ==
    \/ \E q \in CaseQueries : BeginProcessQuery("t1", q, TRUE)
    \/ Admission("t1")
    \/ \E outcome \in {"ok", "APIError"} : GenerateAwait("t1", outcome, "a1")
    \/ Hset("t1", "ok")
    \/ Expire("t1", "ok")
    \/ Tick(30)

SpecCase == InitSource /\ [][CaseNext]_vars

\* C36: the key of an entry is a hash of the normalized query text: the
\* store never holds two entries whose queries are equal up to letter case
\* and surrounding whitespace, the later store overwrites the earlier entry.
C36_NormalizedKey ==
    \A k1, k2 \in Present :
        lower(strip(Text(store[k1].query))) = lower(strip(Text(store[k2].query)))
            => k1 = k2

\* ---------------------------------------------------------------------
\* One caller, a store and a backend that both may fail, so that calls are
\* rejected by either breaker, OPEN or HALF_OPEN with its permit taken.
RejectNext ==
    \/ \E force \in BOOLEAN :
          BeginProcessQuery("t1", "What is the capital of France?", force)
    \/ Admission("t1")
    \/ Permit("t1")
    \/ \E outcome \in {"ok", "ResponseError", "ConnectionError"} :
          SearchWithFilter("t1", outcome)
    \/ \E outcome \in {"ok", "APIError"} : GenerateAwait("t1", outcome, "a1")
    \/ Cancel("t1")
    \/ \E outcome \in {"ok", "TimeoutError"} : Hset("t1", outcome)
    \/ Expire("t1", "ok")
    \/ \E d \in TickSteps : Tick(d)

SpecReject == InitSource /\ [][RejectNext]_vars

\* C39: a call of search, store or generate that is_available rejects
\* records neither a success nor a failure on its breaker: failure_count
\* and last_failure_time stay as they are and the breaker is not closed,
\* and the other breaker is left alone.
C39_RejectionRecordsNothing ==
    [][\A t \in Threads :
         LET pc == th[t].pc
             b == BreakerOf(pc)
             rejected ==
                \/ pc \in {"generate", "gen_permit"} /\ th'[t].pc = "idle"
                \/ /\ pc \in {"search", "search_permit"}
                   /\ redis_client = "connected"
                   /\ th'[t].pc \in {"generate", "idle"}
                \/ /\ pc \in {"store", "store_permit"}
                   /\ redis_client = "connected"
                   /\ th'[t].pc = "idle"
         IN  rejected =>
                /\ cb'[b].failure_count = cb[b].failure_count
                /\ cb'[b].last_failure_time = cb[b].last_failure_time
                /\ cb'[b].state \in {"open", "half_open"}
                /\ \A o \in Breakers \ {b} : cb'[o] = cb[o]
                /\ th'[t].api = th[t].api /\ th'[t].rts = th[t].rts]_vars

\* generate was rejected by the OPEN backend breaker 10 seconds or more
\* after the failure that opened it
C39_Witness ==
    \E t \in Threads :
        /\ QueryDone(th[t]) /\ th[t].ret = "LLMServiceUnavailableError"
        /\ th[t].gen = 1 /\ th[t].api = 0
        /\ cb["llm"].state = "open" /\ cb["llm"].failure_count = 3
        /\ cb["llm"].last_failure_time + 10 <= now
        /\ cb["redis"].state = "half_open"

\* ---------------------------------------------------------------------
\* Recovery of the backend breaker.  One caller whose every request reaches
\* generate (the cache service is not connected); the backend call may
\* succeed, fail, or be cancelled with its request.  The event loop runs
\* every task that can run and an awaited backend call completes; requests
\* keep arriving and time passes.
RecoveryNext ==
    \/ \E force \in BOOLEAN :
          BeginProcessQuery("t1", "What is the capital of France?", force)
    \/ Admission("t1")
    \/ Permit("t1")
    \/ \E outcome \in {"ok", "APIError"} : GenerateAwait("t1", outcome, "a1")
    \/ Cancel("t1")
    \/ \E d \in TickSteps : Tick(d)

\* a step in which a backend call ends without a result
Unhealthy ==
    \/ GenerateAwait("t1", "APIError", "a1")
    \/ Cancel("t1")

SpecRecovery ==
    /\ Init
    /\ [][RecoveryNext]_vars
    /\ WF_vars(\E force \in BOOLEAN :
                  BeginProcessQuery("t1", "What is the capital of France?", force))
    /\ WF_vars(Admission("t1"))
    /\ WF_vars(Permit("t1"))
    /\ WF_vars(GenerateAwait("t1", "ok", "a1"))
    /\ WF_vars(\E d \in TickSteps : Tick(d))

\* C40: if from some point on every backend call succeeds, requests keep
\* arriving and the recovery timeout passes, the backend breaker returns to
\* CLOSED and stays there, whatever failed before: it does not stay OPEN or
\* HALF_OPEN for ever.
C40_RecoveryIsLive ==
    (/\ <>[][~Unhealthy]_vars
     /\ <>[](\/ cb["llm"].last_failure_time = None
             \/ now - cb["llm"].last_failure_time >= cb["llm"].recovery_timeout))
        => <>[](cb["llm"].state = "closed")

====
